---- MODULE Spec2Model ----
(***************************************************************************)
(* A model of jirapub.js (joyent/bugview): the request handlers            *)
(* handle_issue and handle_issue_json, the related-issue lookup and the    *)
(* sanitising projection of                                                *)
(* format_issue / format_issue_assemble, and the fallback markup           *)
(* converter format_markup_fallback / parse_jira_markup with the link      *)
(* renderer format_remote_link / fix_url.                                  *)
(*                                                                         *)
(* A JavaScript object is a function from its property names to values; a  *)
(* property that is absent is outside the DOMAIN.  The value null is the    *)
(* record Null.  A scalar is a string, and "" stands for every falsy        *)
(* scalar.  A piece of text (a JavaScript string that is scanned or         *)
(* rendered) is a sequence of pieces: a piece is one character, or a run    *)
(* of characters none of which is special to HTML or to the markup.        *)
(***************************************************************************)
EXTENDS Integers, Sequences, FiniteSets, TLC

VARIABLES
    UNRESTRICTED,   \* the global flag set by main()
    BACKEND,        \* what be_issue_get answers for every key
    pc,             \* position of the request in handle_issue/format_issue
    format,         \* handle_issue's format argument
    issue,          \* the primary raw issue
    other_issues,   \* format_issue's key -> issue-or-null map
    pending,        \* keys whose be_issue_get callback has not run yet
    calls,          \* how many times be_issue_get was called for each key
    remotelinks,    \* format_issue's filtered remote links
    result,         \* the arguments format_issue gave its callback
    res,            \* the HTTP status sent, "" while unanswered
    peer,           \* the other_issues and pending keys of a second call
    desc,           \* the text given to format_markup_fallback
    mpc,            \* position of the conversion
    fallback,       \* the locals of format_markup_fallback
    parser,         \* the locals of the running parse_jira_markup call
    raised,         \* the exception that left the converter, "" if none
    html            \* the fragment format_markup_fallback returned

issue_vars == <<UNRESTRICTED, BACKEND, pc, format, issue, other_issues,
                pending, calls, remotelinks, result, res, peer>>

markup_vars == <<desc, mpc, fallback, parser, raised, html>>

vars == <<issue_vars, markup_vars>>

----------------------------------------------------------------------------
(* Bounds of the model *)

MaxLinks == 2

MaxVersions == 2

MaxComments == 2

----------------------------------------------------------------------------
(* JavaScript values *)

Null == [js_null |-> TRUE]

IsNull(v) == "js_null" \in DOMAIN v

Has(o, k) == k \in DOMAIN o

\* !!o[k] for an object-valued property: present and not null
TruthyObj(o, k) == Has(o, k) /\ ~IsNull(o[k])

\* !!o[k] for a scalar property: present and not a falsy scalar
TruthyVal(o, k) == Has(o, k) /\ o[k] # ""

Range(s) == {s[n] : n \in DOMAIN s}

\* Array.prototype.indexOf(x) !== -1
Contains(arr, x) == \E n \in DOMAIN arr : arr[n] = x

----------------------------------------------------------------------------
(* Configuration (config.json) and constants *)

CONFIG == [label |-> "public", http_proto |-> "https"]

ALLOWED_DOMAINS == <<"cr.joyent.us", "illumos.org", "mo.joyent.com">>

ALLOWED_LABELS == <<"bhyve", "zfs">>

\* ISSUE_OBJECT_KEYS with the self link of the tracker's REST interface
ISSUE_OBJECT_KEYS_with_self ==
    {"id", "name", "description", "key", "emailAddress", "displayName",
     "self"}

ISSUE_OBJECT_KEYS ==
    {"id", "name", "description", "key", "emailAddress", "displayName"}

RELEASE_OBJECT_KEYS ==
    {"id", "name", "archived", "released", "releaseDate"}

\* A test that lets the public label through as well
is_allowed_label_or_public(label) ==
    Contains(ALLOWED_LABELS, label) \/ label = CONFIG.label

is_allowed_label(label) == Contains(ALLOWED_LABELS, label)

----------------------------------------------------------------------------
(* The issues of the tracker *)

PrimaryKey == "OS-1"

LinkedKeys == {"OS-2", "OS-3"}

None == "none"

IssueId(key) ==
    CASE key = "OS-1" -> "10001"
      [] key = "OS-2" -> "10002"
      [] key = "OS-3" -> "10003"

Summary(key) ==
    CASE key = "OS-1" -> "summary of OS-1"
      [] key = "OS-2" -> "summary of OS-2"
      [] key = "OS-3" -> "summary of OS-3"

\* An endpoint of an issue link as the tracker reports it
Endpoint(key) ==
    [id |-> IssueId(key), key |-> key, self |-> "rest/api/2/issue",
     fields |-> [summary |-> Summary(key),
                 status |-> [name |-> "Open", id |-> "1"],
                 priority |-> [name |-> "High", id |-> "2"]]]

LinkType(n) ==
    IF n % 2 = 1
    THEN [id |-> "10000", name |-> "Relates", inward |-> "relates to",
          outward |-> "relates to", self |-> "rest/api/2/issueLinkType"]
    ELSE [id |-> "10001", name |-> "Duplicate",
          inward |-> "is duplicated by", outward |-> "duplicates",
          self |-> "rest/api/2/issueLinkType"]

LinkId(n) == CASE n = 1 -> "20001" [] n = 2 -> "20002" [] OTHER -> "20003"

\* The n-th issue link, with the given endpoints (None: no such endpoint)
Link(n, ends) ==
    [id |-> LinkId(n), self |-> "rest/api/2/issueLink", type |-> LinkType(n)]
    @@ (IF ends[1] # None THEN [outwardIssue |-> Endpoint(ends[1])] ELSE <<>>)
    @@ (IF ends[2] # None THEN [inwardIssue |-> Endpoint(ends[2])] ELSE <<>>)

Ends == (LinkedKeys \cup {None}) \X (LinkedKeys \cup {None})

LinkLists ==
    UNION {{[n \in 1..len |-> Link(n, e[n])] : e \in [1..len -> Ends]} :
           len \in 0..MaxLinks}

LabelLists ==
    {<<>>, <<"public">>, <<"zfs", "internal", "public", "bhyve">>,
     <<"bhyve", "internal">>}

\* The fields every modelled issue has
BaseFields(key, labels) ==
    [summary |-> Summary(key), labels |-> labels,
     status |-> [id |-> "1", name |-> "Open", self |-> "rest/api/2/status",
                 iconUrl |-> "images/open.png", description |-> ""],
     created |-> "2019-01-01T00:00:00.000+0000",
     customfield_10000 |-> "internal value"]

Issue(key, fields) ==
    [id |-> IssueId(key), key |-> key, self |-> "rest/api/2/issue",
     expand |-> "renderedFields", fields |-> fields]

\* The primary issues of the request flow: any labels, with or without links
PrimaryIssues ==
    {Issue(PrimaryKey, BaseFields(PrimaryKey, l)) : l \in LabelLists}
    \cup {Issue(PrimaryKey,
                BaseFields(PrimaryKey, l) @@ [issuelinks |-> ll]) :
          l \in {<<"public">>, <<"bhyve", "internal">>}, ll \in LinkLists}

Err(info) == [err |-> info]

IsErr(v) == "err" \in DOMAIN v

\* What the backend may answer for a linked key
LinkedAnswers(key) ==
    {Err("error")}
    \cup {Issue(key, BaseFields(key, l)) :
          l \in {<<"public">>, <<"bhyve", "internal">>}}

PrimaryAnswers ==
    {Err("notfound"), Err("error")} \cup PrimaryIssues

----------------------------------------------------------------------------
(* Text: entity encoding, URL parsing and the link renderer *)

\* mod_ent.encode of one piece: the characters special to HTML become
\* numeric entities, every other (ASCII) piece is unchanged
encode_piece(c) ==
    CASE c = "<" -> "&#60;"
      [] c = ">" -> "&#62;"
      [] c = "&" -> "&#38;"
      [] c = "\"" -> "&#34;"
      [] c = "'" -> "&#39;"
      [] OTHER -> c

ent_encode(s) == [n \in DOMAIN s |-> encode_piece(s[n])]

IsSpace(c) == c \in {" ", "\t", "\r", "\n"}

RECURSIVE trim_left(_)
trim_left(s) ==
    IF s # <<>> /\ IsSpace(Head(s)) THEN trim_left(Tail(s)) ELSE s

RECURSIVE trim_right(_)
trim_right(s) ==
    IF s # <<>> /\ IsSpace(s[Len(s)])
    THEN trim_right(SubSeq(s, 1, Len(s) - 1))
    ELSE s

\* String.prototype.trim
trim(s) == trim_right(trim_left(s))

\* The hostname mod_url.parse finds: a URL text names a host only by its
\* first piece, its origin; "null" is the null hostname
NoHostname == "null"

url_hostname(s) ==
    IF s = <<>> THEN NoHostname
    ELSE CASE Head(s) = "http://mo.joyent.com" -> "mo.joyent.com"
           [] Head(s) = "https://cr.joyent.us" -> "cr.joyent.us"
           [] Head(s) = "https://us-east.manta.joyent.com" ->
                  "us-east.manta.joyent.com"
           [] Head(s) = "http://constructor" -> "constructor"
           [] Head(s) = "http://github.com" -> "github.com"
           [] OTHER -> NoHostname

\* mod_url.parse throws (URIError) on an authority whose user part is not
\* decodable; the piece "%" stands for a URL that begins with such a part,
\* as http://%@h does, and has no meaning to the parser after another piece
url_throws(s) == s # <<>> /\ Head(s) = "%"

PathPieces ==
    {"/illumos-joyent", "/smartos-live", "/illumos-live", "/illumos-extra",
     "/sdc-napi", "/sdc-napi-ufds", "/commit/abc"}

\* The pieces of the pathname: the path pieces that follow the origin
RECURSIVE path_run(_)
path_run(s) ==
    IF s # <<>> /\ Head(s) \in PathPieces
    THEN <<Head(s)>> \o path_run(Tail(s))
    ELSE <<>>

url_pathname(s) ==
    IF url_hostname(s) = NoHostname THEN <<>> ELSE path_run(Tail(s))

\* mod_url.parse escapes these characters wherever they occur in the URL
url_escape_piece(c) ==
    CASE c = "<" -> "%3C"
      [] c = ">" -> "%3E"
      [] c = "\"" -> "%22"
      [] c = "'" -> "%27"
      [] c = " " -> "%20"
      [] OTHER -> c

SUBS ==
    [h \in {"mo.joyent.com"} |->
        <<[h |-> "github.com", m |-> "/illumos-joyent",
           p |-> "/joyent/illumos-joyent"],
          [h |-> "github.com", m |-> "/smartos-live",
           p |-> "/joyent/smartos-live"],
          [h |-> "github.com", m |-> "/illumos-live",
           p |-> "/joyent/smartos-live"],
          [h |-> "github.com", m |-> "/illumos-extra",
           p |-> "/joyent/illumos-extra"],
          [h |-> "github.com", m |-> "/sdc-napi",
           p |-> "/joyent/sdc-napi"]>>]

\* new RegExp('^' + m).test(pathname), on pieces: the only modelled path
\* piece of which another is a proper prefix is "/sdc-napi-ufds"
re_test(m, pathname) ==
    /\ pathname # <<>>
    /\ \/ Head(pathname) = m
       \/ Head(pathname) = "/sdc-napi-ufds" /\ m = "/sdc-napi"

\* pathname.replace(re, p)
re_replace(m, p, pathname) ==
    IF Head(pathname) = m
    THEN <<p>> \o Tail(pathname)
    ELSE <<p, "-ufds">> \o Tail(pathname)

\* mod_url.format of the parsed URL with its host and pathname replaced
url_format(s, h, pathname) ==
    LET old == url_pathname(s)
        rest == SubSeq(s, 2 + Len(old), Len(s))
    IN  <<"http://" \o h>> \o pathname
        \o [n \in DOMAIN rest |-> url_escape_piece(rest[n])]

\* SUBS is an object literal: SUBS[hostname] also finds what the object
\* inherits from Object.prototype
InheritedProperties == {"constructor"}

\* The TypeError of line 688: for the hostname "constructor", SUBS[hostname]
\* is the function Object, which is truthy and of length 1 and has no
\* element 0, so that s is undefined and s.m cannot be read
fix_url_raises(input) ==
    LET out == trim(input)
    IN  ~url_throws(out) /\ url_hostname(out) \in InheritedProperties

RECURSIVE first_sub(_, _, _)
first_sub(table, n, pathname) ==
    IF n > Len(table) THEN 0
    ELSE IF re_test(table[n].m, pathname) THEN n
    ELSE first_sub(table, n + 1, pathname)

\* What fix_url returns, when it returns (see fix_url_raises)
fix_url(input) ==
    LET out == trim(input)
        hostname == url_hostname(out)
    IN  IF url_throws(out) THEN out
        ELSE IF hostname \notin DOMAIN SUBS THEN ent_encode(out)
        ELSE LET n == first_sub(SUBS[hostname], 1, url_pathname(out))
             IN  IF n = 0 THEN ent_encode(out)
                 ELSE LET sub == SUBS[hostname][n]
                      IN  ent_encode(url_format(out, sub.h,
                              re_replace(sub.m, sub.p, url_pathname(out))))

format_remote_link(link, text) ==
    <<"<a rel=\"noopener noreferrer\" target=\"_blank\" href=\"">>
    \o fix_url(link) \o <<"\">">> \o text \o <<"</a>">>

----------------------------------------------------------------------------
(* The sanitising projection *)

\* /^([A-Z]+)-([0-9]+)/ on the keys of the model
key_match(key) == key \in {"OS-1", "OS-2", "OS-3"}

\* allow_issue that looks at the key alone
allow_issue_any(key, others) == key_match(key)

allow_issue(key, others) ==
    IF ~key_match(key) THEN FALSE
    ELSE IF ~TruthyObj(others, key) THEN FALSE
    ELSE IF ~UNRESTRICTED /\ ~Contains(others[key].fields.labels, CONFIG.label)
    THEN FALSE
    ELSE TRUE

OBJ_FIELDS ==
    {"issuetype", "priority", "status", "creator", "reporter", "assignee",
     "resolution"}

SIMPLE_FIELDS == {"created", "updated", "resolutiondate", "description"}

ARRAY_FIELDS == {"fixVersions", "issuelinks"}

\* The object copy_obj stores: the truthy properties named by keys
copy_keys(o, keys) == [k \in {j \in keys : TruthyVal(o, j)} |-> o[k]]

copy_obj(fields, fname) == copy_keys(fields[fname], ISSUE_OBJECT_KEYS)

\* The projection of one endpoint of a link
copy_endpoint(e) ==
    [id |-> e.id, key |-> e.key, fields |-> [summary |-> e.fields.summary]]

endpoint_allowed(il, end, others) ==
    Has(il, end) /\ allow_issue(il[end].key, others)

link_pushed(il, others) ==
    \/ endpoint_allowed(il, "outwardIssue", others)
    \/ endpoint_allowed(il, "inwardIssue", others)

copy_link(il, others) ==
    [id |-> il.id,
     type |-> [id |-> il.type.id, name |-> il.type.name,
               inward |-> il.type.inward, outward |-> il.type.outward]]
    @@ (IF endpoint_allowed(il, "outwardIssue", others)
        THEN [outwardIssue |-> copy_endpoint(il.outwardIssue)] ELSE <<>>)
    @@ (IF endpoint_allowed(il, "inwardIssue", others)
        THEN [inwardIssue |-> copy_endpoint(il.inwardIssue)] ELSE <<>>)

copy_links(issuelinks, others) ==
    LET kept == SelectSeq(issuelinks, LAMBDA il : link_pushed(il, others))
    IN  [n \in DOMAIN kept |-> copy_link(kept[n], others)]

AUTHOR_KEYS == {"name", "key", "emailAddress", "displayName"}

copy_author(fname, cfrom) ==
    IF ~TruthyObj(cfrom, fname) THEN <<>>
    ELSE (fname :> [k \in AUTHOR_KEYS \cap DOMAIN cfrom[fname] |->
                        cfrom[fname][k]])

\* A skip of the comments restricted to a group only
comment_skipped_group_only(com) ==
    TruthyObj(com, "visibility") /\ com.visibility.type = "group"

\* if (com.visibility) continue
comment_skipped(com) == TruthyObj(com, "visibility")

copy_comment(com) ==
    [k \in {"id", "created", "updated", "body"} \cap DOMAIN com |-> com[k]]
    @@ copy_author("author", com) @@ copy_author("updateAuthor", com)

copy_comments(c) ==
    LET kept == SelectSeq(c.comments, LAMBDA com : ~comment_skipped(com))
    IN  [maxResults |-> Len(kept), total |-> Len(kept), startAt |-> 0,
         comments |-> [n \in DOMAIN kept |-> copy_comment(kept[n])]]

copy_remotelink(rl) ==
    [id |-> rl.id, object |-> [url |-> rl.object.url,
                               title |-> rl.object.title]]

format_issue_assemble(iss, rlinks, others) ==
    LET f == iss.fields
        names ==
            {"summary", "labels"}
            \cup {n \in OBJ_FIELDS : TruthyObj(f, n)}
            \cup {n \in SIMPLE_FIELDS : TruthyVal(f, n)}
            \cup {n \in ARRAY_FIELDS : Has(f, n)}
            \cup {n \in {"comment"} : TruthyObj(f, n)}
        out ==
            [id |-> iss.id, key |-> iss.key,
             fields |->
                [n \in names |->
                    CASE n \in OBJ_FIELDS -> copy_obj(f, n)
                      [] n = "fixVersions" ->
                            [m \in DOMAIN f.fixVersions |->
                                copy_keys(f.fixVersions[m],
                                          RELEASE_OBJECT_KEYS)]
                      [] n = "issuelinks" -> copy_links(f.issuelinks, others)
                      [] n = "labels" ->
                            SelectSeq(f.labels, is_allowed_label)
                      [] n = "comment" -> copy_comments(f.comment)
                      [] OTHER -> f[n]]]
    IN  [issue |-> out,
         remotelinks |-> [n \in DOMAIN rlinks |-> copy_remotelink(rlinks[n])]]

\* The <li> items of the Related Issues section for one link
related_items(il) ==
    (IF Has(il, "outwardIssue")
     THEN <<[rel |-> il.type.outward, key |-> il.outwardIssue.key,
             summary |-> il.outwardIssue.fields.summary]>>
     ELSE <<>>)
    \o (IF Has(il, "inwardIssue")
        THEN <<[rel |-> il.type.inward, key |-> il.inwardIssue.key,
                summary |-> il.inwardIssue.fields.summary]>>
        ELSE <<>>)

RECURSIVE related_list(_)
related_list(links) ==
    IF links = <<>> THEN <<>>
    ELSE related_items(Head(links)) \o related_list(Tail(links))

\* The page of format_issue_finalise, by section; the Description and
\* Comments sections are the converter's, modelled below
format_issue_finalise(iss, rlinks) ==
    [h1 |-> <<iss.key, iss.fields.summary>>,
     related |-> IF Has(iss.fields, "issuelinks")
                 THEN related_list(iss.fields.issuelinks) ELSE <<>>,
     links |-> [n \in DOMAIN rlinks |->
                   format_remote_link(rlinks[n].object.url,
                                      rlinks[n].object.title)],
     labels |-> iss.fields.labels]

----------------------------------------------------------------------------
(* The request: handle_issue and format_issue *)

AllKeys == {PrimaryKey} \cup LinkedKeys

\* The keys a request may name; "os-1" fails /^[A-Z]+-[0-9]+$/
RequestKeys == {PrimaryKey, "os-1"}

RemoteLink(id, url, title) ==
    [id |-> id, self |-> "rest/api/2/issue/remotelink",
     object |-> [url |-> url, title |-> title, icon |-> "favicon"]]

RemoteLinkPool ==
    {RemoteLink("30001", <<"https://cr.joyent.us", "/commit/abc">>,
                <<"CR ", "<", "1", ">">>),
     RemoteLink("30002", <<"https://us-east.manta.joyent.com", "?",
                "signature">>, <<"core file">>),
     RemoteLink("30003", <<"mailto:", "ops">>, <<"mail">>),
     RemoteLink("30004", <<"http://mo.joyent.com", "/illumos-joyent">>,
                <<"commit">>)}

\* What be_remotelink_get may answer
RemoteAnswers ==
    {Err("error"), [links |-> <<>>]}
    \cup {[links |-> <<a>>] : a \in RemoteLinkPool}
    \cup {[links |-> <<a, b>>] : a, b \in RemoteLinkPool}

\* The keys the forEach of lookup_linked_issues assigns, in its order
RECURSIVE link_key_list(_)
link_key_list(issuelinks) ==
    IF issuelinks = <<>> THEN <<>>
    ELSE LET l == Head(issuelinks)
         IN  (IF Has(l, "outwardIssue") THEN <<l.outwardIssue.key>>
              ELSE <<>>)
             \o (IF Has(l, "inwardIssue") THEN <<l.inwardIssue.key>>
                 ELSE <<>>)
             \o link_key_list(Tail(issuelinks))

\* The property names of an object whose properties were assigned in the
\* order of ks
RECURSIVE distinct_keys(_)
distinct_keys(ks) ==
    IF ks = <<>> THEN <<>>
    ELSE LET front == distinct_keys(SubSeq(ks, 1, Len(ks) - 1))
             last == ks[Len(ks)]
         IN  IF Contains(front, last) THEN front ELSE Append(front, last)

\* The keys collected in an array, one entry per endpoint
object_keys_per_endpoint(issuelinks) == link_key_list(issuelinks)

\* Object.keys(other_issues) after the forEach
object_keys(issuelinks) == distinct_keys(link_key_list(issuelinks))

Count(ks, k) == Cardinality({n \in DOMAIN ks : ks[n] = k})

\* is_public without its label test
is_public_no_label(other) == UNRESTRICTED

is_public(other) ==
    UNRESTRICTED \/ Contains(other.fields.labels, CONFIG.label)

\* A filter that keeps every link whose URL names a host
domain_not_null(rl) == url_hostname(rl.object.url) # NoHostname

domain_allowed(rl) ==
    LET domain == url_hostname(rl.object.url)
    IN  IF domain = NoHostname THEN FALSE
        ELSE Contains(ALLOWED_DOMAINS, domain)

\* No conversion is running
MarkupIdle ==
    /\ desc = <<>>
    /\ mpc = "idle"
    /\ fallback = Null
    /\ parser = Null
    /\ raised = ""
    /\ html = <<>>

IssueInit ==
    /\ MarkupIdle
    /\ UNRESTRICTED \in BOOLEAN
    /\ BACKEND \in {(PrimaryKey :> p) @@ ("OS-2" :> a) @@ ("OS-3" :> b) :
                    p \in PrimaryAnswers, a \in LinkedAnswers("OS-2"),
                    b \in LinkedAnswers("OS-3")}
    /\ pc = "idle"
    /\ format = ""
    /\ issue = Null
    /\ other_issues = <<>>
    /\ pending = {}
    /\ calls = [k \in AllKeys |-> 0]
    /\ remotelinks = <<>>
    /\ result = Null
    /\ res = ""
    /\ peer = Null

\* handle_issue up to its call of be_issue_get
handle_issue(fmt, key) ==
    /\ pc = "idle"
    /\ format' = fmt
    /\ IF ~key_match(key)
       THEN /\ res' = "400"
            /\ pc' = "done"
            /\ calls' = calls
       ELSE /\ res' = res
            /\ pc' = "be_issue_get"
            /\ calls' = [calls EXCEPT ![key] = @ + 1]
    /\ UNCHANGED markup_vars
    /\ UNCHANGED peer
    /\ UNCHANGED <<UNRESTRICTED, BACKEND, issue, other_issues, pending,
                   remotelinks, result>>

\* handle_issue's be_issue_get callback, up to its call of format_issue
handle_issue_reply ==
    /\ pc = "be_issue_get"
    /\ LET got == BACKEND[PrimaryKey]
       IN  IF IsErr(got)
           THEN /\ res' = (IF got.err = "notfound" THEN "404" ELSE "500")
                /\ pc' = "done"
                /\ issue' = issue
           ELSE IF ~UNRESTRICTED
                   /\ ~Contains(got.fields.labels, CONFIG.label)
           THEN /\ res' = "403"
                /\ pc' = "done"
                /\ issue' = issue
           ELSE /\ res' = res
                /\ pc' = "lookup_linked_issues"
                /\ issue' = got
    /\ UNCHANGED markup_vars
    /\ UNCHANGED peer
    /\ UNCHANGED <<UNRESTRICTED, BACKEND, format, other_issues, pending,
                   calls, remotelinks, result>>

\* The first stage of the waterfall: every fetch is started here
lookup_linked_issues ==
    /\ pc = "lookup_linked_issues"
    /\ IF ~Has(issue.fields, "issuelinks")
       THEN /\ pc' = "get_remote_links"
            /\ UNCHANGED <<other_issues, pending, calls>>
       ELSE LET inputs == object_keys(issue.fields.issuelinks)
            IN  /\ other_issues' = [k \in Range(inputs) |-> Null]
                /\ pending' = Range(inputs)
                /\ calls' = [k \in AllKeys |-> calls[k] + Count(inputs, k)]
                /\ pc' = IF inputs = <<>> THEN "get_remote_links"
                         ELSE "lookup_linked_issue_one"
    /\ UNCHANGED markup_vars
    /\ UNCHANGED peer
    /\ UNCHANGED <<UNRESTRICTED, BACKEND, format, issue, remotelinks,
                   result, res>>

\* lookup_linked_issue_one that ends the stage at the first callback
lookup_linked_issue_one_first(key) ==
    /\ pc = "lookup_linked_issue_one"
    /\ key \in pending
    /\ LET other == BACKEND[key]
       IN  other_issues' =
               IF ~IsErr(other) /\ is_public(other)
               THEN [other_issues EXCEPT ![key] = other]
               ELSE other_issues
    /\ pending' = pending \ {key}
    /\ pc' = "get_remote_links"
    /\ UNCHANGED markup_vars
    /\ UNCHANGED peer
    /\ UNCHANGED <<UNRESTRICTED, BACKEND, format, issue, calls, remotelinks,
                   result, res>>

\* The be_issue_get callback of one linked key; the last one to run ends
\* forEachParallel and the stage
lookup_linked_issue_one(key) ==
    /\ pc = "lookup_linked_issue_one"
    /\ key \in pending
    /\ LET other == BACKEND[key]
       IN  other_issues' =
               IF ~IsErr(other) /\ is_public(other)
               THEN [other_issues EXCEPT ![key] = other]
               ELSE other_issues
    /\ pending' = pending \ {key}
    /\ pc' = IF pending' = {} THEN "get_remote_links" ELSE pc
    /\ UNCHANGED markup_vars
    /\ UNCHANGED peer
    /\ UNCHANGED <<UNRESTRICTED, BACKEND, format, issue, calls, remotelinks,
                   result, res>>

\* The be_remotelink_get callback of the second stage
get_remote_links(answer) ==
    /\ pc = "get_remote_links"
    /\ IF IsErr(answer)
       THEN /\ result' = [err |-> answer.err]
            /\ pc' = "callback"
            /\ remotelinks' = remotelinks
       ELSE /\ remotelinks' = SelectSeq(answer.links, domain_allowed)
            /\ pc' = "do_format"
            /\ result' = result
    /\ UNCHANGED markup_vars
    /\ UNCHANGED peer
    /\ UNCHANGED <<UNRESTRICTED, BACKEND, format, issue, other_issues,
                   pending, calls, res>>

\* The third stage
do_format ==
    /\ pc = "do_format"
    /\ LET fi == format_issue_assemble(issue, remotelinks, other_issues)
       IN  result' =
               IF format # "html"
               THEN [formatted |-> [json |-> fi]]
               ELSE [formatted |->
                        [html |-> format_issue_finalise(fi.issue,
                                                        fi.remotelinks)]]
    /\ pc' = "callback"
    /\ UNCHANGED markup_vars
    /\ UNCHANGED peer
    /\ UNCHANGED <<UNRESTRICTED, BACKEND, format, issue, other_issues,
                   pending, calls, remotelinks, res>>

\* handle_issue's format_issue callback
format_issue_callback ==
    /\ pc = "callback"
    /\ res' = (IF Has(result, "err") THEN "500" ELSE "200")
    /\ pc' = "done"
    /\ UNCHANGED markup_vars
    /\ UNCHANGED peer
    /\ UNCHANGED <<UNRESTRICTED, BACKEND, format, issue, other_issues,
                   pending, calls, remotelinks, result>>

format_issue_json(iss) ==
    [id |-> iss.key, summary |-> iss.fields.summary,
     web_url |-> <<CONFIG.http_proto, "://smartos.org/bugview/", iss.key>>]

\* handle_issue_json up to its call of be_issue_get
handle_issue_json(key) ==
    /\ pc = "idle"
    /\ IF ~key_match(key)
       THEN /\ res' = "400"
            /\ pc' = "done"
            /\ calls' = calls
       ELSE /\ res' = res
            /\ pc' = "json_be_issue_get"
            /\ calls' = [calls EXCEPT ![key] = @ + 1]
    /\ UNCHANGED markup_vars
    /\ UNCHANGED peer
    /\ UNCHANGED <<UNRESTRICTED, BACKEND, format, issue, other_issues,
                   pending, remotelinks, result>>

\* The callback without its test of the labels
handle_issue_json_reply_ungated ==
    /\ pc = "json_be_issue_get"
    /\ LET got == BACKEND[PrimaryKey]
       IN  IF IsErr(got)
           THEN /\ res' = (IF got.err = "notfound" THEN "404" ELSE "500")
                /\ result' = result
           ELSE /\ res' = "200"
                /\ result' = [sent |-> format_issue_json(got)]
    /\ pc' = "done"
    /\ UNCHANGED markup_vars
    /\ UNCHANGED peer
    /\ UNCHANGED <<UNRESTRICTED, BACKEND, format, issue, other_issues,
                   pending, calls, remotelinks>>

\* handle_issue_json's be_issue_get callback
handle_issue_json_reply ==
    /\ pc = "json_be_issue_get"
    /\ LET got == BACKEND[PrimaryKey]
       IN  IF IsErr(got)
           THEN /\ res' = (IF got.err = "notfound" THEN "404" ELSE "500")
                /\ result' = result
           ELSE IF ~UNRESTRICTED
                   /\ ~Contains(got.fields.labels, CONFIG.label)
           THEN /\ res' = "403"
                /\ result' = result
           ELSE /\ res' = "200"
                /\ result' = [sent |-> format_issue_json(got)]
    /\ pc' = "done"
    /\ UNCHANGED markup_vars
    /\ UNCHANGED peer
    /\ UNCHANGED <<UNRESTRICTED, BACKEND, format, issue, other_issues,
                   pending, calls, remotelinks>>

IssueNext ==
    \/ \E fmt \in {"html", "json"}, key \in RequestKeys :
           handle_issue(fmt, key)
    \/ handle_issue_reply
    \/ \E key \in RequestKeys : handle_issue_json(key)
    \/ handle_issue_json_reply
    \/ lookup_linked_issues
    \/ \E key \in LinkedKeys : lookup_linked_issue_one(key)
    \/ \E answer \in RemoteAnswers : get_remote_links(answer)
    \/ do_format
    \/ format_issue_callback

Init == IssueInit

Next == IssueNext

Spec == Init /\ [][Next]_vars

\* A second call of format_issue, for an issue whose links refer to the
\* linked keys, that runs while the first does: its first stage begins.
\* other_issues is a local of format_issue (line 1161), so the call has a
\* map of its own
peer_lookup_linked_issues ==
    /\ IsNull(peer)
    /\ ~IsNull(issue)
    /\ pc \in {"lookup_linked_issues", "lookup_linked_issue_one"}
    /\ peer' = [other_issues |-> [k \in LinkedKeys |-> Null],
                pending |-> LinkedKeys]
    /\ UNCHANGED markup_vars
    /\ UNCHANGED <<UNRESTRICTED, BACKEND, pc, format, issue, other_issues,
                   pending, calls, remotelinks, result, res>>

\* A second call whose callbacks write to the map of the first
peer_lookup_linked_issue_one_shared(key, other) ==
    /\ ~IsNull(peer)
    /\ key \in peer.pending
    /\ peer' = [peer EXCEPT !.pending = @ \ {key}]
    /\ other_issues' =
           IF ~IsErr(other) /\ is_public(other) /\ key \in DOMAIN other_issues
           THEN [other_issues EXCEPT ![key] = other]
           ELSE other_issues
    /\ UNCHANGED markup_vars
    /\ UNCHANGED <<UNRESTRICTED, BACKEND, pc, format, issue, pending, calls,
                   remotelinks, result, res>>

\* The be_issue_get callback of one key of the second call: the tracker
\* answers it with what it holds then, other
peer_lookup_linked_issue_one(key, other) ==
    /\ ~IsNull(peer)
    /\ key \in peer.pending
    /\ peer' = [peer EXCEPT
                   !.other_issues =
                       IF ~IsErr(other) /\ is_public(other)
                       THEN [@ EXCEPT ![key] = other]
                       ELSE @,
                   !.pending = @ \ {key}]
    /\ UNCHANGED markup_vars
    /\ UNCHANGED <<UNRESTRICTED, BACKEND, pc, format, issue, other_issues,
                   pending, calls, remotelinks, result, res>>

\* The two calls together; the first is to give the sanitized record, and
\* its remote-link fetch is answered with an error or with no link
ConcurrentNext ==
    \/ handle_issue("json", PrimaryKey)
    \/ handle_issue_reply
    \/ lookup_linked_issues
    \/ \E key \in LinkedKeys : lookup_linked_issue_one(key)
    \/ \E answer \in {Err("error"), [links |-> <<>>]} :
           get_remote_links(answer)
    \/ do_format
    \/ format_issue_callback
    \/ peer_lookup_linked_issues
    \/ \E key \in LinkedKeys :
           \E other \in LinkedAnswers(key) :
               peer_lookup_linked_issue_one(key, other)

SpecConcurrent == Init /\ [][ConcurrentNext]_vars

----------------------------------------------------------------------------
(* The inline parser: parse_jira_markup, one iteration of its loop a step *)

HEADING_LEVELS == {"1", "2", "3", "4", "5", "6"}

\* The letters of the modelled texts; a run of letters (a block name) is one
Letters == {"a", "b", "h", "code", "noformat", "panel", "quote"}

\* desc[j] of JavaScript: the piece at the 0-based index j, or undefined
char_at(s, j) == IF j + 1 \in DOMAIN s THEN s[j + 1] ELSE "undefined"

\* The argument prefmtok gets for null
NoChar == "null"

\* Every character lets a formatting character take effect
prefmtok_always(x) == TRUE

prefmtok(x) ==
    IF x = NoChar THEN TRUE
    ELSE IF x \in Letters THEN FALSE
    ELSE TRUE

RECURSIVE repeat_char(_, _)
repeat_char(c, n) == IF n <= 0 THEN <<>> ELSE <<c>> \o repeat_char(c, n - 1)

\* No list and no heading: the falsy ps_list, the null ps_heading
NoList == ""

NoHeading == ""

\* The locals of parse_jira_markup at its call
parser_begin(line) ==
    [desc |-> line, i |-> 0, text |-> <<>>, formats |-> <<>>, out |-> <<>>,
     state |-> "LEADING_SPACES", link_title |-> <<>>, link_url |-> <<>>,
     leading_spaces |-> 0]

commit_text(p) ==
    [p EXCEPT !.out = @ \o ent_encode(p.text), !.text = <<>>]

\* out.push(...)
push(p, pieces) == [p EXCEPT !.out = @ \o pieces]

\* formats[0]
formats_first(p) ==
    IF p.formats = <<>> THEN "undefined" ELSE Head(p.formats)

\* formats.pop()
formats_pop(p) ==
    [p EXCEPT !.formats =
        IF @ = <<>> THEN <<>> ELSE SubSeq(@, 1, Len(@) - 1)]

formats_push(p, f) == [p EXCEPT !.formats = Append(@, f)]

\* continue: the loop's i++ follows
continue(p) == [p EXCEPT !.i = @ + 1]

\* What one iteration leaves: the locals, the parser state of the caller
step_to(p, ps) == [parser |-> p, ps |-> ps, raised |-> ""]

step_raise(p, ps, e) == [parser |-> p, ps |-> ps, raised |-> e]

\* The formatting code that follows the switch (lines 905 to 957)
inline_format(p0, c, cc, pch) ==
    LET star == c = "*" /\ formats_first(p0) # "CODE"
        p1 == IF star THEN commit_text(p0) ELSE p0
    IN  IF star /\ formats_first(p1) = "BOLD"
        THEN continue(push(formats_pop(p1), <<"</b>">>))
        ELSE IF star /\ prefmtok(pch)
        THEN continue(push(formats_push(p1, "BOLD"), <<"<b>">>))
        ELSE
        LET under == c = "_" /\ formats_first(p1) # "CODE"
            p2 == IF under THEN commit_text(p1) ELSE p1
        IN  IF under /\ formats_first(p2) = "ITALIC"
            THEN continue(push(formats_pop(p2), <<"</i>">>))
            ELSE IF under /\ prefmtok(pch)
            THEN continue(push(formats_push(p2, "ITALIC"), <<"<i>">>))
            ELSE IF c = "{" /\ cc = "{"
            THEN continue(push(commit_text(formats_push(
                     [p2 EXCEPT !.i = @ + 1], "CODE")), <<"<code>">>))
            ELSE IF c = "\\" /\ formats_first(p2) = "CODE"
            THEN continue([p2 EXCEPT !.text = Append(@, cc), !.i = @ + 1])
            ELSE IF c = "}" /\ cc = "}" /\ formats_first(p2) = "CODE"
            THEN continue(push(commit_text(formats_pop(
                     [p2 EXCEPT !.i = @ + 1])), <<"</code>">>))
            ELSE continue([p2 EXCEPT !.text = Append(@, c)])

\* A LEADING_SPACES case whose rewind does not switch to TEXT
leading_spaces_case_stays(p, ps, c, cc) ==
    IF c = " "
    THEN step_to(continue([p EXCEPT !.leading_spaces = @ + 1]), ps)
    ELSE step_to([p EXCEPT !.text = @ \o repeat_char(" ", p.leading_spaces)],
                 ps)

\* case 'LEADING_SPACES'
leading_spaces_case(p, ps, c, cc) ==
    IF c = " "
    THEN step_to(continue([p EXCEPT !.leading_spaces = @ + 1]), ps)
    ELSE IF (c = "*" \/ c = "-") /\ cc = " "
    THEN step_to(
             continue(push(commit_text(push(p,
                 IF ps.ps_list # NoList THEN <<"</li>">> ELSE <<"<ul>">>)),
                 <<"<li>">>)),
             [ps EXCEPT !.ps_list = "ul"])
    ELSE IF c = "#" /\ cc = " "
    THEN step_to(
             continue(push(commit_text(push(p,
                 IF ps.ps_list # NoList THEN <<"</li>">> ELSE <<"<ol>">>)),
                 <<"<li>">>)),
             [ps EXCEPT !.ps_list = "ol"])
    ELSE \* i--; continue: the same character is read again, as TEXT
         step_to([p EXCEPT !.text = @ \o repeat_char(" ", p.leading_spaces),
                           !.state = "TEXT"], ps)

\* case 'TEXT'
text_case(p, ps, c, cc, ccc, pch) ==
    IF ps.ps_list # NoList /\ p.i = 0 /\ c # " "
    THEN \* break: the character goes to the formatting code
         step_to(inline_format(
                     push(commit_text(p),
                          <<"</li></" \o ps.ps_list \o ">">>),
                     c, cc, pch),
                 [ps EXCEPT !.ps_list = NoList])
    ELSE IF p.i = 0 /\ c = "h" /\ ccc = "." /\ cc \in HEADING_LEVELS
    THEN \* i += 3; continue
         step_to(continue([push(commit_text(p), <<"<h" \o cc \o ">">>)
                              EXCEPT !.i = @ + 3]),
                 [ps EXCEPT !.ps_heading = "h" \o cc])
    ELSE IF c = "["
    THEN LET q == [commit_text(p) EXCEPT !.link_title = <<>>,
                                         !.link_url = <<>>]
         IN  IF cc = "~"
             THEN step_to(continue([q EXCEPT !.i = @ + 1,
                                             !.state = "LINK_USER"]), ps)
             ELSE IF cc = "^"
             THEN step_to(continue([q EXCEPT !.i = @ + 1,
                                             !.state = "LINK_ATTACHMENT"]),
                          ps)
             ELSE step_to(continue([q EXCEPT !.state = "LINK_TITLE"]), ps)
    ELSE step_to(inline_format(p, c, cc, pch), ps)

\* case 'LINK_TITLE'
link_title_case(p, c) ==
    IF c = "|" THEN continue([p EXCEPT !.state = "LINK_URL"])
    ELSE IF c = "]"
    THEN continue([push(p, format_remote_link(p.link_title,
                                              ent_encode(p.link_title)))
                      EXCEPT !.state = "TEXT"])
    ELSE continue([p EXCEPT !.link_title = Append(@, c)])

\* case 'LINK_USER'
link_user_case(p, c) ==
    IF c = "]"
    THEN continue([push(p, <<"<b>@">> \o ent_encode(p.link_title)
                           \o <<"</b>">>)
                      EXCEPT !.state = "TEXT"])
    ELSE continue([p EXCEPT !.link_title = Append(@, c)])

\* case 'LINK_ATTACHMENT'
link_attachment_case(p, c) ==
    IF c = "]"
    THEN continue([push(p, <<"<b>[attachment ">> \o ent_encode(p.link_title)
                           \o <<"]</b>">>)
                      EXCEPT !.state = "TEXT"])
    ELSE continue([p EXCEPT !.link_title = Append(@, c)])

\* case 'LINK_URL'
link_url_case(p, c) ==
    IF c = "]"
    THEN continue([push(p, format_remote_link(p.link_url,
                                              ent_encode(p.link_title)))
                      EXCEPT !.state = "TEXT"])
    ELSE continue([p EXCEPT !.link_url = Append(@, c)])

\* One iteration of the for loop of parse_jira_markup
parse_iteration(p, ps) ==
    LET c == char_at(p.desc, p.i)
        cc == char_at(p.desc, p.i + 1)
        ccc == char_at(p.desc, p.i + 2)
        pch == IF p.i > 0 THEN char_at(p.desc, p.i - 1) ELSE NoChar
    IN  IF c = "\n" \/ c = "\r"
        THEN step_raise(p, ps, "AssertionError")
        ELSE CASE p.state = "LEADING_SPACES" ->
                      leading_spaces_case(p, ps, c, cc)
               [] p.state = "TEXT" -> text_case(p, ps, c, cc, ccc, pch)
               [] p.state = "LINK_TITLE" ->
                      IF c = "]" /\ fix_url_raises(p.link_title)
                      THEN step_raise(p, ps, "TypeError")
                      ELSE step_to(link_title_case(p, c), ps)
               [] p.state = "LINK_USER" -> step_to(link_user_case(p, c), ps)
               [] p.state = "LINK_ATTACHMENT" ->
                      step_to(link_attachment_case(p, c), ps)
               [] p.state = "LINK_URL" ->
                      IF c = "]" /\ fix_url_raises(p.link_url)
                      THEN step_raise(p, ps, "TypeError")
                      ELSE step_to(link_url_case(p, c), ps)
               [] OTHER -> step_raise(p, ps, "unknown state")

\* What parse_jira_markup returns once its loop is over
parse_result(p, ps) ==
    commit_text(p).out
    \o (IF ps.ps_heading # NoHeading THEN <<"</" \o ps.ps_heading \o ">">>
        ELSE <<>>)

----------------------------------------------------------------------------
(* The block scanner: format_markup_fallback, one line a step *)

MaxDocLen == 4

\* The pieces of the texts converted
MarkupAlphabet ==
    {"a", " ", "*", "{", "[", "]", "|", "%", "<", "&", "\r", "\n"}

Texts(alphabet, maxlen) == UNION {[1..len -> alphabet] : len \in 0..maxlen}

MarkupDocs == Texts(MarkupAlphabet, MaxDocLen)

\* desc.split(/\r?\n/): cur is the line being read, s what is left to read
RECURSIVE split_from(_, _)
split_from(cur, s) ==
    IF s = <<>> THEN <<cur>>
    ELSE IF Head(s) = "\n"
    THEN <<IF cur # <<>> /\ cur[Len(cur)] = "\r"
           THEN SubSeq(cur, 1, Len(cur) - 1) ELSE cur>>
         \o split_from(<<>>, Tail(s))
    ELSE split_from(Append(cur, Head(s)), Tail(s))

split(s) == split_from(<<>>, s)

\* line.match(/^{name/)
line_type(line, name) ==
    Len(line) >= 2 /\ line[1] = "{" /\ line[2] = name

\* The index of the first piece of s at or after n that is in set, or
\* Len(s) + 1
RECURSIVE first_in(_, _, _)
first_in(s, n, set) ==
    IF n > Len(s) \/ s[n] \in set THEN n ELSE first_in(s, n + 1, set)

\* line.match(/^{[^}]*}?(.*)/)[1]: the "." matches no line terminator
eat_block(line) ==
    LET close == first_in(line, 2, {"}"})
        from == IF close <= Len(line) THEN close + 1 ELSE close
        to == first_in(line, from, {"\r", "\n"})
    IN  SubSeq(line, from, to - 1)

format_panel_open(names) ==
    CASE names = <<"panel">> ->
             <<"<div class=\"panel \"><div class=\"panelContent \">">>
      [] names = <<"preformatted", "panel">> ->
             <<"<div class=\"preformatted panel \">"
               \o "<div class=\"preformattedContent panelContent \">">>
      [] names = <<"code", "panel">> ->
             <<"<div class=\"code panel \">"
               \o "<div class=\"codeContent panelContent \">">>

\* closing is null
NoClosing == <<>>

\* The locals of format_markup_fallback when its loop begins
fallback_begin(text) ==
    [out |-> <<>>, lines |-> split(text), i |-> 0,
     last_was_heading |-> FALSE, fmton |-> FALSE, newline_br |-> FALSE,
     parse_markup |-> TRUE,
     parser_state |-> [ps_list |-> NoList, ps_heading |-> NoHeading],
     procneeded |-> TRUE, closing |-> NoClosing, line |-> <<>>]

\* A scanner that takes every marker for the end of a panel
marker_line_closes_panel(f0) ==
    [f0 EXCEPT !.procneeded = FALSE,
               !.out = @ \o <<"</div></div>\n">>,
               !.closing = NoClosing,
               !.line = <<>>,
               !.fmton = ~@]

\* Lines 1026 to 1070: what a block marker at the head of the line does
marker_line(f0) ==
    LET line == f0.line
        f1 == [f0 EXCEPT !.procneeded = FALSE]
        f2 == IF f1.parser_state.ps_list # NoList
              THEN [f1 EXCEPT !.parser_state.ps_list = NoList,
                              !.out = @ \o <<"</ul>\n">>]
              ELSE f1
        f3 == IF f2.fmton
              THEN [f2 EXCEPT !.parse_markup = TRUE,
                              !.out = @ \o f2.closing,
                              !.closing = NoClosing,
                              !.line = <<>>]
              ELSE IF line_type(line, "quote")
              THEN [f2 EXCEPT !.newline_br = TRUE,
                              !.parse_markup = TRUE,
                              !.out = @ \o <<"<blockquote>\n">>,
                              !.closing = <<"</blockquote>">>,
                              !.line = eat_block(line)]
              ELSE IF line_type(line, "panel")
              THEN [f2 EXCEPT !.newline_br = FALSE,
                              !.parse_markup = TRUE,
                              !.out = @ \o format_panel_open(<<"panel">>)
                                        \o <<"\n">>,
                              !.closing = <<"</div></div>\n">>,
                              !.line = eat_block(line)]
              ELSE IF line_type(line, "noformat")
              THEN [f2 EXCEPT !.newline_br = FALSE,
                              !.parse_markup = FALSE,
                              !.out = @ \o format_panel_open(
                                               <<"preformatted", "panel">>)
                                        \o <<"<pre>\n">>,
                              !.closing = <<"</pre></div></div>\n">>,
                              !.line = eat_block(line)]
              ELSE [f2 EXCEPT !.newline_br = FALSE,
                              !.parse_markup = FALSE,
                              !.out = @ \o format_panel_open(
                                               <<"code", "panel">>)
                                        \o <<"<pre>\n">>,
                              !.closing = <<"</pre></div></div>\n">>,
                              !.line = eat_block(line)]
    IN  [f3 EXCEPT !.fmton = ~f2.fmton]

is_marker_line(line) ==
    \E name \in {"noformat", "code", "panel", "quote"} : line_type(line, name)

\* A scanner that ends every processed line with <br>
line_break_always_br(f) == [f EXCEPT !.out = @ \o <<"<br>\n">>]

\* Lines 1077 to 1082: the line break that follows a processed line
line_break(f) ==
    IF f.fmton
    THEN [f EXCEPT !.out = @ \o (IF f.newline_br THEN <<"<br>\n">>
                                 ELSE <<"\n">>)]
    ELSE IF f.parser_state.ps_heading = NoHeading /\ ~f.last_was_heading
    THEN [f EXCEPT !.out = @ \o <<"<br>\n">>]
    ELSE f

\* Lines 1084 to 1085 and the loop's i++
end_of_line(f) ==
    [f EXCEPT !.procneeded = TRUE,
              !.last_was_heading = (f.parser_state.ps_heading # NoHeading),
              !.i = @ + 1]

\* No request is running
IssueIdle ==
    /\ UNRESTRICTED = FALSE
    /\ BACKEND = <<>>
    /\ pc = "idle"
    /\ format = ""
    /\ issue = Null
    /\ other_issues = <<>>
    /\ pending = {}
    /\ calls = <<>>
    /\ remotelinks = <<>>
    /\ result = Null
    /\ res = ""
    /\ peer = Null

MarkupInit ==
    /\ IssueIdle
    /\ desc \in MarkupDocs
    /\ mpc = "call"
    /\ fallback = Null
    /\ parser = Null
    /\ raised = ""
    /\ html = <<>>

\* format_markup_fallback is called: lines 1005 to 1017
format_markup_fallback_call ==
    /\ mpc = "call"
    /\ fallback' = fallback_begin(desc)
    /\ mpc' = "line"
    /\ UNCHANGED <<desc, parser, raised, html>>
    /\ UNCHANGED issue_vars

\* One iteration of the loop over the lines, up to the call of
\* parse_jira_markup if the line is parsed, to its end if not
format_markup_fallback_line ==
    /\ mpc = "line"
    /\ fallback.i < Len(fallback.lines)
    /\ LET f0 == [fallback EXCEPT !.line = fallback.lines[fallback.i + 1]]
           marker == is_marker_line(f0.line)
       IN  IF marker /\ f0.fmton /\ f0.closing = NoClosing
           THEN \* mod_assert.string(closing, 'closing')
                /\ raised' = "AssertionError"
                /\ mpc' = "raised"
                /\ UNCHANGED <<fallback, parser>>
           ELSE LET f == IF marker THEN marker_line(f0) ELSE f0
                IN  /\ raised' = raised
                    /\ IF ~(f.procneeded \/ f.line # <<>>)
                       THEN /\ fallback' = end_of_line(f)
                            /\ UNCHANGED <<mpc, parser>>
                       ELSE IF f.parse_markup
                       THEN /\ fallback' =
                                   [f EXCEPT !.parser_state.ps_heading =
                                                 NoHeading]
                            /\ parser' = parser_begin(f.line)
                            /\ mpc' = "parse"
                       ELSE /\ fallback' =
                                   end_of_line(line_break(
                                       [f EXCEPT !.out =
                                            @ \o ent_encode(f.line)]))
                            /\ UNCHANGED <<mpc, parser>>
    /\ UNCHANGED <<desc, html>>
    /\ UNCHANGED issue_vars

\* One iteration of the loop of parse_jira_markup
parse_jira_markup_step ==
    /\ mpc = "parse"
    /\ parser.i < Len(parser.desc)
    /\ LET r == parse_iteration(parser, fallback.parser_state)
       IN  IF r.raised # ""
           THEN /\ raised' = r.raised
                /\ mpc' = "raised"
                /\ UNCHANGED <<fallback, parser>>
           ELSE /\ parser' = r.parser
                /\ fallback' = [fallback EXCEPT !.parser_state = r.ps]
                /\ UNCHANGED <<mpc, raised>>
    /\ UNCHANGED <<desc, html>>
    /\ UNCHANGED issue_vars

\* parse_jira_markup returns and the iteration of the caller ends
parse_jira_markup_return ==
    /\ mpc = "parse"
    /\ parser.i >= Len(parser.desc)
    /\ fallback' =
           end_of_line(line_break(
               [fallback EXCEPT !.out =
                    @ \o parse_result(parser, fallback.parser_state)]))
    /\ parser' = Null
    /\ mpc' = "line"
    /\ UNCHANGED <<desc, raised, html>>
    /\ UNCHANGED issue_vars

\* Lines 1088 to 1092
\* A scanner that returns without the closing markup of the open region
format_markup_fallback_return_unclosed ==
    /\ mpc = "line"
    /\ fallback.i >= Len(fallback.lines)
    /\ html' = fallback.out
    /\ mpc' = "returned"
    /\ UNCHANGED <<desc, fallback, parser, raised>>
    /\ UNCHANGED issue_vars

format_markup_fallback_return ==
    /\ mpc = "line"
    /\ fallback.i >= Len(fallback.lines)
    /\ html' = fallback.out \o fallback.closing
    /\ mpc' = "returned"
    /\ UNCHANGED <<desc, fallback, parser, raised>>
    /\ UNCHANGED issue_vars

MarkupNext ==
    \/ format_markup_fallback_call
    \/ format_markup_fallback_line
    \/ parse_jira_markup_step
    \/ parse_jira_markup_return
    \/ format_markup_fallback_return

SpecMarkup == MarkupInit /\ [][MarkupNext]_vars

----------------------------------------------------------------------------
(* Properties of the request *)

\* The keys the links of the primary issue refer to
ReferencedKeys ==
    IF ~IsNull(issue) /\ Has(issue.fields, "issuelinks")
    THEN Range(link_key_list(issue.fields.issuelinks))
    ELSE {}

\* The related-issue lookup of the running format_issue call is over
LookupDone ==
    /\ ~IsNull(issue)
    /\ pc \notin {"lookup_linked_issues", "lookup_linked_issue_one"}

\* The fetch of key succeeds, and the issue fetched may be published
FetchedPublic(key) ==
    /\ ~IsErr(BACKEND[key])
    /\ UNRESTRICTED \/ Contains(BACKEND[key].fields.labels, "public")

\* key has a non-null entry in the decision map and allow_issue accepts it
Visible(key) == TruthyObj(other_issues, key) /\ allow_issue(key, other_issues)

\* C1: once the related-issue lookup is over, a key the links refer to is
\* Visible exactly if its fetch succeeded and unrestricted mode is active or
\* the fetched labels contain the public label; every other key is Suppressed.
C1_VisibleIffFetchedPublic ==
    LookupDone => \A key \in ReferencedKeys : Visible(key) <=> FetchedPublic(key)

\* A lookup that ended with one key Visible, one whose fetch failed or whose
\* issue is not public, in restricted mode
C1_Witness ==
    /\ LookupDone
    /\ ~UNRESTRICTED
    /\ ReferencedKeys = {"OS-2", "OS-3"}
    /\ Visible("OS-2")
    /\ ~IsErr(BACKEND["OS-3"])
    /\ ~Visible("OS-3")

\* The sanitized record format_issue delivered, for the JSON format
Delivered == Has(result, "formatted")

DeliveredJson == Delivered /\ Has(result.formatted, "json")

DeliveredHtml == Delivered /\ Has(result.formatted, "html")

AnyVisible(il) ==
    \/ Has(il, "outwardIssue") /\ FetchedPublic(il.outwardIssue.key)
    \/ Has(il, "inwardIssue") /\ FetchedPublic(il.inwardIssue.key)

\* The raw endpoint e appears as p: exactly {id, key, fields: {summary}}
ProjectedAs(e, p) ==
    /\ DOMAIN p = {"id", "key", "fields"}
    /\ DOMAIN p.fields = {"summary"}
    /\ p.id = e.id /\ p.key = e.key /\ p.fields.summary = e.fields.summary

\* The raw link il appears as ol: its Visible endpoints and no other
SurvivesAs(il, ol) ==
    /\ ol.id = il.id
    /\ DOMAIN ol \subseteq {"id", "type", "outwardIssue", "inwardIssue"}
    /\ \A end \in {"outwardIssue", "inwardIssue"} :
          /\ Has(ol, end) <=> (Has(il, end) /\ FetchedPublic(il[end].key))
          /\ Has(ol, end) => ProjectedAs(il[end], ol[end])

\* C2: a link of the raw issue is in the sanitized issuelinks exactly if one
\* of its endpoints is Visible; a surviving link holds its Visible endpoints
\* only, each projected to {id, key, fields: {summary}}; nothing of a
\* Suppressed endpoint or link is in the output, JSON or HTML.
C2_LinksOfVisibleEndpoints ==
    /\ (DeliveredJson /\ Has(issue.fields, "issuelinks")) =>
          LET raw == issue.fields.issuelinks
              kept == SelectSeq(raw, AnyVisible)
              outl == result.formatted.json.issue.fields.issuelinks
          IN  /\ Len(outl) = Len(kept)
              /\ \A n \in DOMAIN outl : SurvivesAs(kept[n], outl[n])
    /\ (DeliveredJson /\ ~Has(issue.fields, "issuelinks")) =>
          ~Has(result.formatted.json.issue.fields, "issuelinks")
    /\ DeliveredHtml =>
          LET items == result.formatted.html.related
          IN  {items[n].key : n \in DOMAIN items}
                  = {key \in ReferencedKeys : FetchedPublic(key)}

\* A delivered record whose raw issue has a link with one Visible and one
\* Suppressed endpoint, and a link with no Visible endpoint
C2_Witness ==
    /\ DeliveredJson
    /\ Has(issue.fields, "issuelinks")
    /\ Len(issue.fields.issuelinks) = 2
    /\ Len(result.formatted.json.issue.fields.issuelinks) = 1
    /\ \E il \in Range(issue.fields.issuelinks) :
          /\ Has(il, "outwardIssue") /\ Has(il, "inwardIssue")
          /\ FetchedPublic(il.outwardIssue.key)
          /\ ~FetchedPublic(il.inwardIssue.key)

\* The call of format_issue has ended: its callback has its arguments
CalledBack == ~IsNull(issue) /\ pc \in {"callback", "done"}

\* C6: when the fetch of a linked issue fails, the key is Suppressed and
\* format_issue still delivers the formatted primary issue, without an error.
C6_LinkedFetchFailureIsNotFatal ==
    (CalledBack /\ \E key \in ReferencedKeys : IsErr(BACKEND[key])) =>
        /\ Delivered
        /\ \A key \in ReferencedKeys : IsErr(BACKEND[key]) => ~Visible(key)
        /\ pc = "done" => res = "200"

\* C7: a failure of the remote-link fetch never fails the render:
\* format_issue delivers a formatted issue and the request is not answered
\* with an error.
C7_RemoteLinkFailureIsNotFatal ==
    CalledBack => (Delivered /\ (pc = "done" => res = "200"))

\* C9: the fetches of all referenced keys are started together, and
\* format_issue assembles and calls back only when each of them has settled.
C9_FanOutFanIn ==
    /\ (\E key \in ReferencedKeys : calls[key] > 0) =>
          \A key \in ReferencedKeys : calls[key] > 0
    /\ (~IsNull(issue) /\ pc \in {"do_format", "callback", "done"}) =>
          /\ pending = {}
          /\ \A key \in ReferencedKeys : calls[key] > 0

\* format_issue assembles after two fetches
C9_Witness ==
    /\ pc = "do_format"
    /\ Cardinality(ReferencedKeys) = 2
    /\ IsErr(BACKEND["OS-2"])

\* C10: in one call every distinct referenced key is fetched exactly once,
\* however many links refer to it, and a failed fetch is not repeated.
C10_EachKeyFetchedOnce ==
    /\ \A key \in AllKeys : calls[key] <= 1
    /\ LookupDone => \A key \in LinkedKeys :
                         calls[key] = (IF key \in ReferencedKeys THEN 1 ELSE 0)

\* A finished request whose issue names one key in two links, the fetch of
\* which failed
C10_Witness ==
    /\ pc = "done" /\ res = "200"
    /\ ~IsNull(issue)
    /\ Has(issue.fields, "issuelinks")
    /\ Count(link_key_list(issue.fields.issuelinks), "OS-2") >= 2
    /\ IsErr(BACKEND["OS-2"])
    /\ calls["OS-2"] = 1

\* The labels of a list that are in the allowed-label set, in their order
AllowedOf(labels) ==
    SelectSeq(labels, LAMBDA l : l \in Range(ALLOWED_LABELS))

\* The raw issue of the request, as the tracker holds it
RawIssue == BACKEND[PrimaryKey]

\* The raw labels make the issue eligible for publication
Eligible ==
    UNRESTRICTED \/ CONFIG.label \in Range(RawIssue.fields.labels)

\* C13: the labels of the sanitized issue are exactly the raw labels that
\* are in the allowed-label set, in restricted and in unrestricted mode,
\* and whether the issue is visible is decided on the raw labels: an issue
\* is refused exactly if it is not eligible by them.
C13_LabelsFilteredForDisplayOnly ==
    /\ DeliveredJson =>
           result.formatted.json.issue.fields.labels
               = AllowedOf(RawIssue.fields.labels)
    /\ DeliveredHtml =>
           result.formatted.html.labels = AllowedOf(RawIssue.fields.labels)
    /\ (pc = "done" /\ res # "400" /\ ~IsErr(RawIssue)) =>
           (res = "403" <=> ~Eligible)

\* An issue delivered in restricted mode: its public label made it
\* visible and is not displayed, of its other labels the allowed are
C13_Witness ==
    /\ DeliveredJson
    /\ ~UNRESTRICTED
    /\ RawIssue.fields.labels = <<"zfs", "internal", "public", "bhyve">>
    /\ result.formatted.json.issue.fields.labels = <<"zfs", "bhyve">>

\* C17: an issue is served with status 200, by handle_issue or by
\* handle_issue_json, only if unrestricted mode is active or its raw labels
\* contain the public label; otherwise the answer is 403 and nothing of
\* the issue is formatted or sent, and no linked issue is fetched.
C17_ServedOnlyIfEligible ==
    /\ res = "200" => (~IsErr(RawIssue) /\ Eligible)
    /\ (~IsErr(RawIssue) /\ ~Eligible) =>
           /\ pc = "done" => res \in {"400", "403"}
           /\ result = Null
           /\ issue = Null
           /\ \A key \in LinkedKeys : calls[key] = 0

\* handle_issue_json has refused an issue that has labels but not the
\* public one
C17_Witness ==
    /\ pc = "done" /\ res = "403"
    /\ format = ""
    /\ RawIssue.fields.labels = <<"bhyve", "internal">>
    /\ Has(RawIssue.fields, "issuelinks")
    /\ calls[PrimaryKey] = 1

\* The hostname of a URL is one of the configured allowed domains
AllowedHost(url) ==
    /\ url_hostname(url) # NoHostname
    /\ \E n \in DOMAIN ALLOWED_DOMAINS : ALLOWED_DOMAINS[n] = url_hostname(url)

\* The links of an answer whose hostname is allowed, in their order
RECURSIVE KeepAllowed(_)
KeepAllowed(links) ==
    IF links = <<>> THEN <<>>
    ELSE (IF AllowedHost(Head(links).object.url) THEN <<Head(links)>>
          ELSE <<>>) \o KeepAllowed(Tail(links))

\* Link p of the output is link rl of the answer, as {id, object: {url,
\* title}} exactly
ProjectedLink(p, rl) ==
    /\ DOMAIN p = {"id", "object"}
    /\ DOMAIN p.object = {"url", "title"}
    /\ p.id = rl.id
    /\ p.object.url = rl.object.url
    /\ p.object.title = rl.object.title

\* The URL an anchor of the page points to
HrefOf(anchor) == SubSeq(anchor, 2, first_in(anchor, 2, {"\">"}) - 1)

\* The filter keeps the links of the answer whose hostname is allowed and
\* drops the others
OthersDropped ==
    [][(pc = "get_remote_links" /\ pc' = "do_format") =>
           \E answer \in RemoteAnswers :
               /\ ~IsErr(answer)
               /\ remotelinks' = KeepAllowed(answer.links)]_vars

\* The JSON output has each of the links kept, projected
JsonLinksProjected ==
    DeliveredJson =>
        LET rls == result.formatted.json.remotelinks
        IN  /\ Len(rls) = Len(remotelinks)
            /\ \A n \in DOMAIN rls :
                   /\ AllowedHost(rls[n].object.url)
                   /\ ProjectedLink(rls[n], remotelinks[n])

\* Every anchor of the page points to an allowed host
HtmlHrefsAllowed ==
    DeliveredHtml =>
        LET links == result.formatted.html.links
        IN  /\ Len(links) = Len(remotelinks)
            /\ \A n \in DOMAIN links : AllowedHost(HrefOf(links[n]))

\* Every anchor of the page is rendered from a link whose hostname is
\* allowed, and points to that URL or, for a host of the rewriting table,
\* to the host the table names
HtmlSourcesAllowed ==
    DeliveredHtml =>
        LET links == result.formatted.html.links
        IN  /\ Len(links) = Len(remotelinks)
            /\ \A n \in DOMAIN links :
                   LET url == remotelinks[n].object.url
                       host == url_hostname(url)
                   IN  /\ AllowedHost(url)
                       /\ \/ HrefOf(links[n]) = ent_encode(trim(url))
                          \/ /\ host \in DOMAIN SUBS
                             /\ \E m \in DOMAIN SUBS[host] :
                                    url_hostname(HrefOf(links[n]))
                                        = SUBS[host][m].h

\* C26: every remote link in the output of format_issue, JSON or HTML, has
\* a URL whose hostname is not null and is one of the allowed domains;
\* links with another hostname are dropped, and each surviving link is
\* projected to exactly {id, object: {url, title}}.
C26_RemoteLinkHostsAllowed ==
    OthersDropped /\ []JsonLinksProjected /\ []HtmlHrefsAllowed

\* C26 as it holds: in the JSON output every link has an allowed hostname
\* and is projected exactly, links with another hostname are dropped, and
\* every anchor of the page is rendered from a link with an allowed
\* hostname, whose host the rewriting table may replace in the anchor.
C26_RemoteLinkSourcesAllowed ==
    OthersDropped /\ []JsonLinksProjected /\ []HtmlSourcesAllowed

\* A page with the anchor of a rewritten link and that of a link left as
\* it is
C26_Witness ==
    /\ DeliveredHtml
    /\ Len(remotelinks) = 2
    /\ remotelinks[1].id = "30004" /\ remotelinks[2].id = "30001"
    /\ HrefOf(result.formatted.html.links[1])
           = <<"http://github.com", "/joyent/illumos-joyent">>
    /\ HrefOf(result.formatted.html.links[2])
           = <<"https://cr.joyent.us", "/commit/abc">>

\* The decision map the fetches of the call itself give, whatever their
\* order: for each key the links refer to, the issue fetched if it may be
\* published and null if not
OwnDecisions ==
    [key \in ReferencedKeys |->
        IF FetchedPublic(key) THEN BACKEND[key] ELSE Null]

\* The variables of the first call, and a step of the second call
CallState == <<pc, issue, other_issues, pending, remotelinks, result, res>>

PeerStep == peer' # peer

\* C29: the visibility decision of every linked key, and so the sanitized
\* issue of a format_issue call, is the same for every order in which the
\* callbacks of its fetches run, and no fetch of another format_issue call
\* that runs at the same time changes it.
C29_DecisionsOrderAndCallIndependent ==
    /\ [](LookupDone => other_issues = OwnDecisions)
    /\ [](DeliveredJson =>
              result.formatted.json
                  = format_issue_assemble(issue, remotelinks, OwnDecisions))
    /\ [][PeerStep => UNCHANGED CallState]_vars
    /\ [][~PeerStep => UNCHANGED peer]_vars

\* Both calls have fetched both keys, and the second call was answered
\* otherwise than the first: it publishes OS-2 and not OS-3, the first
\* OS-3 and not OS-2
C29_Witness ==
    /\ DeliveredJson
    /\ ~UNRESTRICTED
    /\ ReferencedKeys = {"OS-2", "OS-3"}
    /\ ~IsNull(peer)
    /\ peer.pending = {}
    /\ ~IsNull(peer.other_issues["OS-2"])
    /\ IsNull(peer.other_issues["OS-3"])
    /\ IsNull(other_issues["OS-2"])
    /\ ~IsNull(other_issues["OS-3"])

----------------------------------------------------------------------------
(* The projection alone: format_issue_assemble on issues of every shape *)

\* An object-valued field as the tracker reports it
ObjFull ==
    [id |-> "1", name |-> "n", description |-> "d", key |-> "k",
     emailAddress |-> "e@example.com", displayName |-> "D",
     self |-> "rest/api/2/user", avatarUrls |-> [x48 |-> "avatar.png"],
     active |-> "true", timeZone |-> "UTC", iconUrl |-> "icon.png"]

\* One with a falsy name and most properties missing
ObjPartial ==
    [id |-> "1", name |-> "", self |-> "rest/api/2/user",
     accountId |-> "5b10"]

ObjShapes == {Null, ObjFull, ObjPartial}

\* The sets of object-valued fields an issue may have
ObjSubsets ==
    {{}, OBJ_FIELDS}
    \cup {{n} : n \in OBJ_FIELDS}
    \cup {OBJ_FIELDS \ {n} : n \in OBJ_FIELDS}

SimpleShapes ==
    {<<>>,
     [n \in SIMPLE_FIELDS |-> "2019-01-01T00:00:00.000+0000"],
     [n \in SIMPLE_FIELDS |-> ""]}

VersionPool ==
    {[id |-> "1", name |-> "20190101", archived |-> "", released |-> "true",
      releaseDate |-> "2019-01-01", self |-> "rest/api/2/version",
      projectId |-> "100", description |-> "release notes"],
     [id |-> "2", name |-> "20190201", overdue |-> "true",
      userReleaseDate |-> "01/Feb/19"]}

VersionLists == UNION {[1..len -> VersionPool] : len \in 0..MaxVersions}

VersionShapes == {<<>>} \cup {[fixVersions |-> vl] : vl \in VersionLists}

CommentId(n) == CASE n = 1 -> "40001" [] n = 2 -> "40002" [] OTHER -> "40003"

CommentBody(n) ==
    CASE n = 1 -> "first" [] n = 2 -> "second" [] OTHER -> "third"

\* The n-th comment; vis tells its visibility property
Comment(n, vis) ==
    [id |-> CommentId(n), self |-> "rest/api/2/comment",
     created |-> "2019-01-02", updated |-> "2019-01-03",
     body |-> CommentBody(n), author |-> ObjFull, updateAuthor |-> ObjFull]
    @@ (CASE vis = "role" ->
                 [visibility |-> [type |-> "role", value |-> "Developers"]]
          [] vis = "null" -> [visibility |-> Null]
          [] OTHER -> <<>>)

VisKinds == {"absent", "null", "role"}

CommentLists ==
    UNION {{[n \in 1..len |-> Comment(n, v[n])] : v \in [1..len -> VisKinds]} :
           len \in 0..MaxComments}

CommentShapes ==
    {<<>>}
    \cup {[comment |-> [maxResults |-> Len(cl), total |-> Len(cl),
                        startAt |-> 0, comments |-> cl]] :
          cl \in CommentLists}

AssembleIssues ==
    {Issue(PrimaryKey,
           [summary |-> Summary(PrimaryKey),
            labels |-> <<"zfs", "internal", "public", "bhyve">>,
            customfield_10000 |-> "internal value",
            watches |-> [watchCount |-> "3"]]
           @@ [n \in present |-> shape] @@ simple
           @@ versions @@ comments) :
        present \in ObjSubsets, shape \in ObjShapes, simple \in SimpleShapes,
        versions \in VersionShapes, comments \in CommentShapes}

AssembleInit ==
    /\ MarkupIdle
    /\ UNRESTRICTED \in BOOLEAN
    /\ BACKEND = <<>>
    /\ pc = "assemble"
    /\ format = "json"
    /\ issue \in AssembleIssues
    /\ other_issues = <<>>
    /\ pending = {}
    /\ calls = [k \in AllKeys |-> 0]
    /\ remotelinks = <<>>
    /\ result = Null
    /\ res = ""
    /\ peer = Null

\* format_issue_assemble applied to the issue
assemble ==
    /\ pc = "assemble"
    /\ result' = [formatted |->
                     [json |-> format_issue_assemble(issue, remotelinks,
                                                     other_issues)]]
    /\ pc' = "assembled"
    /\ UNCHANGED markup_vars
    /\ UNCHANGED peer
    /\ UNCHANGED <<UNRESTRICTED, BACKEND, format, issue, other_issues,
                   pending, calls, remotelinks, res>>

AssembleNext == assemble

SpecAssemble == AssembleInit /\ [][AssembleNext]_vars

\* The record assembled
Assembled == result.formatted.json.issue

\* C3: the assembled record has no key outside the allowlists: the
\* object-valued fields have keys among id, name, description, key,
\* emailAddress, displayName; the fixVersions entries among id, name,
\* archived, released, releaseDate; and a field the raw issue lacks is not in
\* the output.
C3_OnlyAllowlistedKeys ==
    pc = "assembled" =>
        /\ DOMAIN Assembled = {"id", "key", "fields"}
        /\ \A n \in DOMAIN Assembled.fields :
              /\ n \in DOMAIN issue.fields
              /\ n \in {"summary", "issuetype", "priority", "status",
                        "created", "updated", "creator", "reporter",
                        "assignee", "resolution", "resolutiondate",
                        "fixVersions", "issuelinks", "labels", "description",
                        "comment"}
        /\ \A n \in {"issuetype", "priority", "status", "creator", "reporter",
                     "assignee", "resolution"} \cap DOMAIN Assembled.fields :
              DOMAIN Assembled.fields[n] \subseteq
                  {"id", "name", "description", "key", "emailAddress",
                   "displayName"}
        /\ Has(Assembled.fields, "fixVersions") =>
              \A m \in DOMAIN Assembled.fields.fixVersions :
                  DOMAIN Assembled.fields.fixVersions[m] \subseteq
                      {"id", "name", "archived", "released", "releaseDate"}

\* A record assembled from an issue whose object-valued fields and fix
\* versions carry keys outside the allowlists
C3_Witness ==
    /\ pc = "assembled"
    /\ Has(issue.fields, "assignee") /\ Has(issue.fields.assignee, "self")
    /\ Has(Assembled.fields, "assignee")
    /\ ~Has(Assembled.fields, "reporter")
    /\ Has(issue.fields, "fixVersions")
    /\ Len(issue.fields.fixVersions) = 2
    /\ Has(issue.fields.fixVersions[1], "projectId")

\* com carries a visibility restriction
Restricted(com) == Has(com, "visibility") /\ com.visibility # Null

\* C4: no comment with a visibility restriction is among the sanitized
\* comments, and every comment without one is, in the original order.
C4_RestrictedCommentsDropped ==
    (pc = "assembled" /\ Has(issue.fields, "comment")) =>
        LET raw == issue.fields.comment.comments
            open == SelectSeq(raw, LAMBDA com : ~Restricted(com))
            outc == Assembled.fields.comment.comments
        IN  /\ Len(outc) = Len(open)
            /\ \A n \in DOMAIN outc :
                  /\ outc[n].id = open[n].id
                  /\ outc[n].body = open[n].body
                  /\ ~Has(outc[n], "visibility")
            /\ \A n \in DOMAIN raw :
                  Restricted(raw[n]) =>
                      \A m \in DOMAIN outc :
                          outc[m].id # raw[n].id /\ outc[m].body # raw[n].body

\* Comments assembled from a restricted comment followed by a free one
C4_Witness ==
    /\ pc = "assembled"
    /\ Has(issue.fields, "comment")
    /\ Len(issue.fields.comment.comments) = 2
    /\ Restricted(issue.fields.comment.comments[1])
    /\ ~Restricted(issue.fields.comment.comments[2])
    /\ Len(Assembled.fields.comment.comments) = 1

----------------------------------------------------------------------------
(* Properties of the converter *)

\* The characters that must not reach the output as they are
HtmlSpecial == {"<", ">", "&", "\""}

\* No piece of the fragment is a character special to HTML: the markup the
\* converter writes itself is in pieces of several characters
Escaped(fragment) == \A n \in DOMAIN fragment : fragment[n] \notin HtmlSpecial

\* C5: for every text, the fragment the converter returns holds no unescaped
\* <, >, & or " that comes from the text, on every path, the path of a URL
\* that fails to parse included.
C5_OutputIsEscaped == mpc = "returned" => Escaped(html)

\* What does hold of the escaping: a text without a link whose URL fails to parse
\* is converted to an escaped fragment
EscapedUnlessParseFails ==
    (mpc = "returned" /\ \A n \in DOMAIN desc : desc[n] # "%") =>
        Escaped(html)

\* The remote links of the page are not escaped either: format_issue_finalise
\* gives format_remote_link the title as the tracker sent it
RemoteLinkTitlesEscaped ==
    DeliveredHtml =>
        \A n \in DOMAIN result.formatted.html.links :
            Escaped(result.formatted.html.links[n])

\* C8: for every text, carriage returns and line feeds in any combination
\* included, format_markup_fallback returns and raises nothing.
C8_FallbackNeverRaises == raised = ""

\* What does hold of the exceptions: a text in which every carriage return is
\* followed by a line feed is converted without an exception
RaisesOnlyOnLoneCarriageReturn ==
    raised # "" =>
        \E n \in DOMAIN desc :
            desc[n] = "\r" /\ (n = Len(desc) \/ desc[n + 1] # "\n")

----------------------------------------------------------------------------
(* The link renderer, applied by the inline parser to the links of a line *)

MaxUrlLen == 3

\* The pieces of the URLs rendered
LinkAlphabet ==
    {"http://mo.joyent.com", "https://cr.joyent.us", "http://constructor",
     "/illumos-joyent", "/illumos-live", "/sdc-napi-ufds", "/commit/abc",
     "?q=1", "#frag", "<", "%", " "}

LinkUrls == Texts(LinkAlphabet, MaxUrlLen)

LinkTitles == {<<"title">>, <<"a", "<", "b">>}

\* The texts [url] and [title|url]
LinkDocs ==
    {<<"[">> \o u \o <<"]">> : u \in LinkUrls}
    \cup {<<"[">> \o t \o <<"|">> \o u \o <<"]">> :
              t \in LinkTitles, u \in LinkUrls}

LinkInit ==
    /\ IssueIdle
    /\ desc \in LinkDocs
    /\ mpc = "call"
    /\ fallback = Null
    /\ parser = Null
    /\ raised = ""
    /\ html = <<>>

SpecLink == LinkInit /\ [][MarkupNext]_vars

\* The parser is about to read the "]" that ends a link
LinkClosing ==
    /\ mpc = "parse"
    /\ parser.state \in {"LINK_TITLE", "LINK_URL"}
    /\ char_at(parser.desc, parser.i) = "]"

\* The URL and the display text format_remote_link is then given
LinkUrl ==
    IF parser.state = "LINK_URL" THEN parser.link_url ELSE parser.link_title

LinkText == ent_encode(parser.link_title)

\* The link has been rendered: what the step wrote
Rendered(before, after) == SubSeq(after, Len(before) + 1, Len(after))

Anchor(href, text) ==
    <<"<a rel=\"noopener noreferrer\" target=\"_blank\" href=\"">>
    \o href \o <<"\">">> \o text \o <<"</a>">>

\* C11: when parsing the URL fails, the link renderer returns the escaped
\* display text alone, not wrapped in an anchor, and nothing is raised.
C11_ParseFailureRendersTextAlone ==
    [][(LinkClosing /\ url_throws(trim(LinkUrl))) =>
           /\ raised' = ""
           /\ Rendered(parser.out, parser'.out) = LinkText]_vars

\* What the renderer does when parsing fails: nothing is raised, and the
\* anchor is written with the URL as it was given, trimmed and not escaped
ParseFailureRendersRawAnchor ==
    [][(LinkClosing /\ url_throws(trim(LinkUrl))) =>
           /\ raised' = ""
           /\ Rendered(parser.out, parser'.out)
                  = Anchor(trim(LinkUrl), LinkText)]_vars

\* A link whose URL fails to parse has been rendered
ParseFailureRendered ==
    /\ mpc = "returned"
    /\ desc = <<"[", "title", "|", "%", "<", "]">>
    /\ html = Anchor(<<"%", "<">>, <<"title">>) \o <<"<br>\n">>

\* The entry of the rewrite table that applies to a URL: the first, in the
\* order of the table, whose prefix begins the path; 0 if the hostname is
\* not in the table or no prefix matches
TableEntry(u) ==
    IF url_hostname(u) \in DOMAIN SUBS
    THEN first_sub(SUBS[url_hostname(u)], 1, url_pathname(u))
    ELSE 0

\* What follows the path in the URL: the query and the fragment
AfterPath(u) == SubSeq(u, 2 + Len(url_pathname(u)), Len(u))

\* The URL with the host and the prefix of its entry replaced and nothing
\* else changed; after(rest) is what becomes of the query and the fragment
RewrittenWith(u, after(_)) ==
    IF TableEntry(u) = 0 THEN u
    ELSE LET sub == SUBS[url_hostname(u)][TableEntry(u)]
         IN  <<"http://" \o sub.h>>
             \o re_replace(sub.m, sub.p, url_pathname(u))
             \o after(AfterPath(u))

Unchanged(rest) == rest

PercentEscaped(rest) == [n \in DOMAIN rest |-> url_escape_piece(rest[n])]

\* C12: a URL whose hostname is in the rewrite table is rewritten by the
\* first entry whose prefix begins its path: the host and that prefix are
\* replaced, the remaining path, the query and the fragment are unchanged;
\* every other URL is returned unrewritten, only entity-encoded.
C12_RewriteByFirstMatchingPrefix ==
    [][(LinkClosing /\ ~url_throws(trim(LinkUrl))) =>
           /\ raised' = ""
           /\ Rendered(parser.out, parser'.out)
                  = Anchor(ent_encode(RewrittenWith(trim(LinkUrl), Unchanged)),
                           LinkText)]_vars

\* What does hold of the rewriting: unless the hostname names a property
\* that SUBS inherits, the URL is rewritten by the first matching entry,
\* and what follows the rewritten path is percent-escaped by mod_url
RewriteUpToPercentEscaping ==
    [][(LinkClosing /\ ~url_throws(trim(LinkUrl))) =>
           IF url_hostname(trim(LinkUrl)) \in InheritedProperties
           THEN raised' = "TypeError"
           ELSE /\ raised' = ""
                /\ Rendered(parser.out, parser'.out)
                       = Anchor(ent_encode(RewrittenWith(trim(LinkUrl),
                                                         PercentEscaped)),
                                LinkText)]_vars

\* A URL of the table has been rewritten, and one that is not has not
RewriteRendered ==
    /\ mpc = "returned"
    /\ \/ /\ desc = <<"[", "http://mo.joyent.com", "/sdc-napi-ufds",
                      "/commit/abc", "]">>
          /\ html[2] = "http://github.com"
          /\ html[3] = "/joyent/sdc-napi"
       \/ /\ desc = <<"[", "https://cr.joyent.us", "/illumos-joyent", "<",
                      "]">>
          /\ html[4] = "&#60;"

----------------------------------------------------------------------------
(* The inline parser on lines of emphasis and code spans *)

MaxInlineLen == 5

InlineAlphabet == {"a", " ", "*", "_", "{", "}"}

InlineDocs == Texts(InlineAlphabet, MaxInlineLen)

InlineInit ==
    /\ IssueIdle
    /\ desc \in InlineDocs
    /\ mpc = "call"
    /\ fallback = Null
    /\ parser = Null
    /\ raised = ""
    /\ html = <<>>

SpecInline == InlineInit /\ [][MarkupNext]_vars

\* The parser is about to read a character
Reading == mpc = "parse" /\ parser.i < Len(parser.desc)

\* The character read, the one after it and the one before it
ThisChar == char_at(parser.desc, parser.i)

NextChar == char_at(parser.desc, parser.i + 1)

FirstOfLine == parser.i = 0

AfterLetter == ~FirstOfLine /\ char_at(parser.desc, parser.i - 1) \in Letters

\* The character read is one the formatting code gets: in the TEXT state
\* a "*" or "_" is neither a heading nor the start of a link
AtDelimiter(ch) == Reading /\ parser.state = "TEXT" /\ ThisChar = ch

\* A format is open: it is on the stack of open formats
Open(f) == f \in Range(parser.formats)

\* The two emphases: delimiter, format and markup
Emphases ==
    {[ch |-> "*", f |-> "BOLD", open |-> "<b>", close |-> "</b>"],
     [ch |-> "_", f |-> "ITALIC", open |-> "<i>", close |-> "</i>"]}

\* What the parser has emitted so far, the text not yet committed included
Emitted(p) == p.out \o ent_encode(p.text)

\* The step opens format f: the markup is written and f is on the stack
Opens(e) ==
    /\ parser'.formats = Append(parser.formats, e.f)
    /\ parser'.text = <<>>
    /\ parser'.out # <<>>
    /\ parser'.out[Len(parser'.out)] = e.open

\* The step closes format f: the markup is written and f is open no more
Closes(e) ==
    /\ e.f \notin Range(parser'.formats)
    /\ parser'.text = <<>>
    /\ parser'.out # <<>>
    /\ parser'.out[Len(parser'.out)] = e.close

\* The step emits the character as text and opens and closes nothing
Literal(ch) ==
    /\ parser'.formats = parser.formats
    /\ Emitted(parser') # <<>>
    /\ Emitted(parser')[Len(Emitted(parser'))] = encode_piece(ch)
    /\ Len(Emitted(parser')) >= Len(Emitted(parser)) + 1

\* C14: outside a code span and while the emphasis is not open, a "*" or
\* "_" opens the emphasis if and only if it is the first character of the
\* line or the character before it is not a letter, and is a literal
\* character otherwise; a*a*a is rendered as it is, a *a* with bold.
C14_DelimiterOpensUnlessAfterLetter ==
    /\ [][\A e \in Emphases :
              (AtDelimiter(e.ch) /\ ~Open("CODE") /\ ~Open(e.f)) =>
                  IF AfterLetter THEN Literal(e.ch) ELSE Opens(e)]_vars
    /\ [](mpc = "returned" =>
              /\ desc = <<"a", "*", "a", "*", "a">> =>
                     html = <<"a", "*", "a", "*", "a", "<br>\n">>
              /\ desc = <<"a", " ", "*", "a", "*">> =>
                     html = <<"a", " ", "<b>", "a", "</b>", "<br>\n">>)

\* Both cases in one line: a "*" after a letter that stayed literal, a "_"
\* after a space that opened italic
C14_Witness ==
    /\ mpc = "returned"
    /\ desc = <<"a", "*", " ", "_">>
    /\ html = <<"a", "*", " ", "<i>", "<br>\n">>

\* C16: while a code span is open, whatever was open when it was opened,
\* a "*" or "_" is literal text and opens or closes nothing, and every
\* character up to the closing "}}" is emitted escaped and not interpreted.
C16_CodeSpanIsVerbatim ==
    [][(/\ Reading
        /\ Open("CODE")
        /\ ~(ThisChar = "}" /\ NextChar = "}")
        /\ ThisChar # "\\") =>
           (raised' = "" /\ Literal(ThisChar))]_vars

\* What does hold of code spans: in a span opened while nothing else was
\* open, "*" and "_" are literal
CodeSpanOpenedFirstSuppressesEmphasis ==
    [][\A e \in Emphases :
           (AtDelimiter(e.ch) /\ formats_first(parser) = "CODE") =>
               Literal(e.ch)]_vars

\* C18: once bold is open, the next "*" outside a code span closes it, and
\* so does the next "_" for italic, whatever character is before the
\* delimiter and whatever other format was opened before or after.
C18_OpenEmphasisIsClosedByItsDelimiter ==
    [][\A e \in Emphases :
           (AtDelimiter(e.ch) /\ ~Open("CODE") /\ Open(e.f)) => Closes(e)]_vars

\* What does hold of closing: the delimiter writes the closing markup when
\* its emphasis is the first format that was opened
FirstOpenedEmphasisIsClosed ==
    [][\A e \in Emphases :
           (AtDelimiter(e.ch) /\ formats_first(parser) = e.f) =>
               /\ parser'.out[Len(parser'.out)] = e.close
               /\ Len(parser'.formats) = Len(parser.formats) - 1]_vars

\* C19: in every state of the inline parser at most one of BOLD and ITALIC
\* is on the stack of open formats.
C19_BoldAndItalicNeverBothOpen ==
    mpc = "parse" => ~(Open("BOLD") /\ Open("ITALIC"))

----------------------------------------------------------------------------
(* The inline parser on lines that follow a list item: lists and headings *)

MaxLineLen == 4

LineAlphabet == {"a", " ", "*", "h", "1", "7", "."}

\* The line before: a list item of either kind, or none
FirstLines == {<<"*", " ", "a">>, <<"#", " ", "a">>}

Lines == Texts(LineAlphabet, MaxLineLen)

LineDocs ==
    Lines \cup {first \o <<"\n">> \o line : first \in FirstLines, line \in Lines}

LinesInit ==
    /\ IssueIdle
    /\ desc \in LineDocs
    /\ mpc = "call"
    /\ fallback = Null
    /\ parser = Null
    /\ raised = ""
    /\ html = <<>>

SpecLines == LinesInit /\ [][MarkupNext]_vars

\* The index of the first character of the line that is not a space, or
\* Len(line) + 1
FirstNonSpace(line) ==
    IF \A n \in DOMAIN line : line[n] = " " THEN Len(line) + 1
    ELSE CHOOSE n \in DOMAIN line :
             line[n] # " " /\ \A m \in 1..(n - 1) : line[m] = " "

\* The line has content, and its first character that is not a space does
\* not start a list marker: "* ", "- " or "# "
NonListLine(line) ==
    LET n == FirstNonSpace(line)
    IN  /\ n <= Len(line)
        /\ ~(line[n] \in {"*", "-", "#"} /\ char_at(line, n) = " ")

ListOpen == fallback.parser_state.ps_list # NoList

ListClose == {"</li></ul>", "</li></ol>"}

\* C15: when a list is open and the first character of the next line that
\* is not a space does not start a list marker, the closing markup of the
\* list is emitted before any content of the line, whether or not the line
\* begins with spaces: content of such a line is never inside the list.
C15_ListClosedBeforeNonListLine ==
    (/\ mpc = "parse"
     /\ NonListLine(parser.desc)
     /\ Emitted(parser) # <<>>) =>
        /\ ~ListOpen
        /\ \A n \in DOMAIN parser.out :
               parser.out[n] \in ListClose => n = 1

\* What does hold of the closing: a line that does not begin with a space
\* closes the list before its content
ListClosedBeforeUnindentedLine ==
    (/\ mpc = "parse"
     /\ NonListLine(parser.desc)
     /\ parser.desc[1] # " "
     /\ Emitted(parser) # <<>>) =>
        /\ ~ListOpen
        /\ \A n \in DOMAIN parser.out :
               parser.out[n] \in ListClose => n = 1

\* A line is a heading line: "h", a digit from 1 to 6, "."
HeadingLine(line) ==
    /\ Len(line) >= 3
    /\ line[1] = "h"
    /\ line[2] \in {"1", "2", "3", "4", "5", "6"}
    /\ line[3] = "."

\* The pieces of a text that no rule of the parser interprets
Plain(text) == \A n \in DOMAIN text : text[n] \in {"a", " ", "1", "7", "."}

\* The loop of the parser is over: what it has read is rendered
LineParsed == mpc = "parse" /\ parser.i >= Len(parser.desc)

\* What follows the first piece of s that equals x
After(s, x) == SubSeq(s, first_in(s, 1, {x}) + 1, Len(s))

\* C20: every line that begins with "h", a digit from 1 to 6 and "." opens
\* a heading of that level, also when a list is open at the line, and
\* consumes exactly these three characters: what the line holds from its
\* fourth character on is rendered as the content of the heading.
C20_HeadingConsumesThreeCharacters ==
    (LineParsed /\ HeadingLine(parser.desc)) =>
        LET line == parser.desc
            open == "<h" \o line[2] \o ">"
            close == "</h" \o line[2] \o ">"
            rendered == parse_result(parser, fallback.parser_state)
        IN  /\ fallback.parser_state.ps_heading = "h" \o line[2]
            /\ open \in Range(rendered)
            /\ Plain(SubSeq(line, 4, Len(line))) =>
                   After(rendered, open)
                       = SubSeq(line, 4, Len(line)) \o <<close>>

\* What does hold of headings: unless a list is open, the line opens the
\* heading, and its content is what the line holds from its fifth
\* character on
HeadingConsumesFourCharacters ==
    (LineParsed /\ HeadingLine(parser.desc)) =>
        LET line == parser.desc
            open == "<h" \o line[2] \o ">"
            close == "</h" \o line[2] \o ">"
            rendered == parse_result(parser, fallback.parser_state)
        IN  IF fallback.parser_state.ps_heading = NoHeading
            THEN \* a list was open: it is closed, and the line is text
                 /\ rendered[1] \in ListClose
                 /\ Plain(line) => Tail(rendered) = line
            ELSE Plain(SubSeq(line, 5, Len(line))) =>
                     rendered = <<open>> \o SubSeq(line, 5, Len(line))
                                \o <<close>>

----------------------------------------------------------------------------
(* The block scanner on documents of marker lines, list items, headings    *)
(* and links                                                               *)

MaxBlockLines == 3

\* The lines of the documents
BlockLines ==
    {<<"{", "code", "}">>,
     <<"{", "quote", "}">>,
     <<"{", "panel", "}", "a">>,
     <<"{", "noformat", "}">>,
     <<"*", " ", "a">>,
     <<"#", " ", "a">>,
     <<"h", "1", ".", " ", "a">>,
     <<"a">>,
     <<"*", "<", "*">>,
     <<"[", "~", "a", "]">>,
     <<"[", "^", "a", "]">>,
     <<"[", "a", "<", "|", "https://cr.joyent.us", "]">>,
     <<"[", "https://cr.joyent.us", "]">>}

\* The documents of n lines, each line but the last ended by a line feed
RECURSIVE BlockDocsOf(_)
BlockDocsOf(n) ==
    IF n = 1 THEN BlockLines
    ELSE {line \o <<"\n">> \o rest :
              line \in BlockLines, rest \in BlockDocsOf(n - 1)}

BlockDocs == UNION {BlockDocsOf(n) : n \in 1..MaxBlockLines}

BlocksInit ==
    /\ IssueIdle
    /\ desc \in BlockDocs
    /\ mpc = "call"
    /\ fallback = Null
    /\ parser = Null
    /\ raised = ""
    /\ html = <<>>

SpecBlocks == BlocksInit /\ [][MarkupNext]_vars

\* The kind of region a marker line names, or "none"
MarkerKind(line) ==
    IF Len(line) >= 2 /\ line[1] = "{"
           /\ line[2] \in {"quote", "panel", "noformat", "code"}
    THEN line[2]
    ELSE "none"

\* The region that is open after the first n lines: a marker line opens
\* the region it names if none is open and closes the open one otherwise
RECURSIVE OpenRegion(_, _)
OpenRegion(lines, n) ==
    IF n = 0 THEN "none"
    ELSE LET before == OpenRegion(lines, n - 1)
             kind == MarkerKind(lines[n])
         IN  IF kind = "none" THEN before
             ELSE IF before = "none" THEN kind
             ELSE "none"

\* The closing markup that belongs to a region
ClosingOf(kind) ==
    CASE kind = "quote" -> <<"</blockquote>">>
      [] kind = "panel" -> <<"</div></div>\n">>
      [] kind \in {"code", "noformat"} -> <<"</pre></div></div>\n">>
      [] OTHER -> <<>>

\* The scanner is about to read a line, and the line it reads
AtLine == mpc = "line" /\ fallback.i < Len(fallback.lines)

ThisLine == fallback.lines[fallback.i + 1]

\* The region open where the scanner is: between two lines, or in a line
\* whose marker, if it has one, it has read
RegionHere ==
    OpenRegion(fallback.lines,
               IF mpc = "parse" THEN fallback.i + 1 ELSE fallback.i)

\* C21: at every point of the scan at most one region is open, the one the
\* marker lines read so far leave open; a marker line read while a region
\* is open closes it with the closing markup of the region that was
\* opened, whatever region the marker names, and opens no region.
C21_MarkersToggleOneRegion ==
    /\ [](mpc \in {"line", "parse"} =>
              /\ fallback.fmton <=> RegionHere # "none"
              /\ fallback.closing = ClosingOf(RegionHere))
    /\ [][(AtLine /\ MarkerKind(ThisLine) # "none" /\ RegionHere # "none") =>
              /\ raised' = ""
              /\ ~fallback'.fmton
              /\ fallback'.closing = NoClosing
              /\ fallback'.out # <<>>
              /\ <<fallback'.out[Len(fallback'.out)]>> = ClosingOf(RegionHere)
              /\ Len(fallback'.out) <= Len(fallback.out) + 2]_vars

\* A quote region has been closed by a marker that names a code region
C21_Witness ==
    /\ mpc = "returned"
    /\ desc = <<"{", "quote", "}", "\n", "a", "\n", "{", "code", "}">>
    /\ html = <<"<blockquote>\n", "a", "<br>\n", "</blockquote>">>

\* A region of literal text is open
LiteralRegionHere == RegionHere \in {"code", "noformat"}

\* C22: while a code or noformat region is open, a line that is not a
\* marker line gives exactly one line of output, the escaped line and a
\* line feed: no tag is written for it and no markup in it is interpreted.
C22_LiteralRegionIsOneInOneOut ==
    [][(AtLine /\ MarkerKind(ThisLine) = "none" /\ LiteralRegionHere) =>
           /\ raised' = ""
           /\ mpc' = "line"
           /\ fallback'.out
                  = fallback.out \o ent_encode(ThisLine) \o <<"\n">>]_vars

\* A code region with a line of emphasis and a line of a link in it
C22_Witness ==
    /\ mpc = "returned"
    /\ desc = <<"{", "code", "}", "\n", "*", "<", "*", "\n",
                "[", "~", "a", "]">>
    /\ SubSeq(html, 3, Len(html))
           = <<"*", "&#60;", "*", "\n", "[", "~", "a", "]", "\n",
               "</pre></div></div>\n">>

\* The text that follows the marker on a marker line
TrailingText(line) == After(line, "}")

\* C23: for every marker line, whether it opens or closes a region, the
\* text that follows the marker on the line is processed as content and
\* is in the output.
C23_TrailingTextIsContent ==
    [][(AtLine /\ MarkerKind(ThisLine) # "none"
            /\ TrailingText(ThisLine) # <<>>) =>
           \/ mpc' = "parse" /\ parser'.desc = TrailingText(ThisLine)
           \/ /\ mpc' = "line"
              /\ Len(fallback'.out) >= 2
              /\ fallback'.out[Len(fallback'.out) - 1]
                     = TrailingText(ThisLine)[1]]_vars

\* What does hold of the trailing text: it is processed when the marker
\* opens a region, and dropped when the marker closes one
TrailingTextDroppedOnClose ==
    [][(AtLine /\ MarkerKind(ThisLine) # "none"
            /\ TrailingText(ThisLine) # <<>>) =>
           IF RegionHere = "none"
           THEN mpc' = "parse" /\ parser'.desc = TrailingText(ThisLine)
           ELSE /\ mpc' = "line"
                /\ <<fallback'.out[Len(fallback'.out)]>>
                       = ClosingOf(RegionHere)]_vars

\* The parsed line opened a heading
IsHeading == fallback.parser_state.ps_heading # NoHeading

\* C24: outside any region, <br> is appended after every processed line
\* that is not a heading line, the line that follows a heading line and
\* the one that follows a region after a heading included, and after no
\* heading line.
C24_BreakAfterEveryLineButHeadings ==
    [][(LineParsed /\ RegionHere = "none") =>
           LET last == fallback'.out[Len(fallback'.out)]
           IN  IF IsHeading THEN last # "<br>\n" ELSE last = "<br>\n"]_vars

\* What does hold of the breaks: <br> is appended unless the line is a
\* heading line or the heading of the line parsed before is still set
BreakUnlessHeadingBefore ==
    [][(LineParsed /\ RegionHere = "none") =>
           LET last == fallback'.out[Len(fallback'.out)]
           IN  IF IsHeading \/ fallback.last_was_heading
               THEN last # "<br>\n" ELSE last = "<br>\n"]_vars

\* The state a "[" leads to, by the character that follows it
LinkStateFor(cc) ==
    CASE cc = "~" -> "LINK_USER"
      [] cc = "^" -> "LINK_ATTACHMENT"
      [] OTHER -> "LINK_TITLE"

LinkStates == {"LINK_TITLE", "LINK_USER", "LINK_ATTACHMENT", "LINK_URL"}

\* What the "]" of a complete link is to write
LinkMarkup ==
    CASE parser.state = "LINK_USER" ->
             <<"<b>@">> \o ent_encode(parser.link_title) \o <<"</b>">>
      [] parser.state = "LINK_ATTACHMENT" ->
             <<"<b>[attachment ">> \o ent_encode(parser.link_title)
                 \o <<"]</b>">>
      [] OTHER -> Anchor(ent_encode(LinkUrl), LinkText)

\* C25: wherever the inline parser reads "[" as text, the first character
\* of a line that closes a list included, a link begins, and its "]"
\* writes <b>@name</b> for [~name], <b>[attachment name]</b> for [^name],
\* an anchor to url with text title for [title|url] and an anchor to url
\* with text url for [url], the name and the title escaped.
C25_BracketBeginsLinkEverywhere ==
    /\ [][(Reading /\ parser.state = "TEXT" /\ ThisChar = "[") =>
              /\ raised' = ""
              /\ parser'.state = LinkStateFor(NextChar)
              /\ parser'.link_title = <<>>
              /\ parser'.out = Emitted(parser)]_vars
    /\ [][(Reading /\ parser.state \in LinkStates /\ ThisChar = "]") =>
              /\ raised' = ""
              /\ parser'.state = "TEXT"
              /\ Rendered(parser.out, parser'.out) = LinkMarkup]_vars

\* What does hold of "[": it begins a link unless it is the first
\* character of a line read while a list is open, where it closes the list
\* and is text
BracketBeginsLinkUnlessListCloses ==
    /\ [][(Reading /\ parser.state = "TEXT" /\ ThisChar = "[") =>
              /\ raised' = ""
              /\ IF ListOpen /\ FirstOfLine
                 THEN /\ parser'.state = "TEXT"
                      /\ ~ListOpen'
                      /\ Emitted(parser') = Emitted(parser)
                             \o <<"</li></" \o fallback.parser_state.ps_list
                                      \o ">", "[">>
                 ELSE /\ parser'.state = LinkStateFor(NextChar)
                      /\ parser'.link_title = <<>>
                      /\ parser'.out = Emitted(parser)]_vars
    /\ [][(Reading /\ parser.state \in LinkStates /\ ThisChar = "]") =>
              /\ raised' = ""
              /\ parser'.state = "TEXT"
              /\ Rendered(parser.out, parser'.out) = LinkMarkup]_vars

\* The tags that close a list, and the tag that opens the list each closes
ListClosers == {"</li></ul>", "</li></ol>", "</ul>\n"}

OpenerOf(closer) == IF closer = "</li></ol>" THEN "<ol>" ELSE "<ul>"

\* Every closing tag of a list from piece n of out on matches the tag
\* that opened the list, where open is the tag of the list open at n
RECURSIVE ListTagsMatch(_, _, _)
ListTagsMatch(out, n, open) ==
    IF n > Len(out) THEN TRUE
    ELSE IF out[n] \in {"<ul>", "<ol>"}
    THEN ListTagsMatch(out, n + 1, out[n])
    ELSE IF out[n] \in ListClosers
    THEN OpenerOf(out[n]) = open /\ ListTagsMatch(out, n + 1, "")
    ELSE ListTagsMatch(out, n + 1, open)

\* C27: every closing tag of a list the converter emits matches the tag
\* that opened the list, </ul> for <ul> and </ol> for <ol>, for every
\* sequence of item lines, non-list lines and marker lines.
C27_ListClosingTagMatchesOpening ==
    mpc = "returned" => ListTagsMatch(html, 1, "")

\* What does hold of the tags: they match in a document with no "#" item
UnorderedListTagsMatch ==
    (mpc = "returned" /\ \A n \in DOMAIN desc : desc[n] # "#") =>
        ListTagsMatch(html, 1, "")

\* The closing markup of regions, and the pieces of out that are one
ClosingPieces == {"</blockquote>", "</div></div>\n", "</pre></div></div>\n"}

IsClosingPiece(x) == x \in ClosingPieces

Closings(out) == SelectSeq(out, IsClosingPiece)

\* The closing markup the marker lines among the first n lines call for:
\* that of the open region, at each marker line read while one is open
RECURSIVE ClosedRegions(_, _)
ClosedRegions(lines, n) ==
    IF n = 0 THEN <<>>
    ELSE ClosedRegions(lines, n - 1)
         \o (IF MarkerKind(lines[n]) # "none"
             THEN ClosingOf(OpenRegion(lines, n - 1)) ELSE <<>>)

\* C28: the output holds the closing markup of each opened region exactly
\* once, written at the next marker line or, when the text ends with the
\* region open, at the end of the output; there is no closing markup for
\* a region that was not opened.
C28_EachRegionClosedOnce ==
    /\ mpc \in {"line", "parse"} =>
           Closings(fallback.out)
               = ClosedRegions(fallback.lines,
                               IF mpc = "parse" THEN fallback.i + 1
                               ELSE fallback.i)
    /\ mpc = "returned" =>
           LET lines == split(desc)
               last == OpenRegion(lines, Len(lines))
           IN  /\ Closings(html)
                      = ClosedRegions(lines, Len(lines)) \o ClosingOf(last)
               /\ last # "none" => <<html[Len(html)]>> = ClosingOf(last)

\* A quote closed by a marker, then a code region the end of the text closes
C28_Witness ==
    /\ mpc = "returned"
    /\ desc = <<"{", "quote", "}", "\n", "{", "panel", "}", "a", "\n",
                "{", "code", "}">>
    /\ Closings(html) = <<"</blockquote>", "</pre></div></div>\n">>
    /\ html[Len(html)] = "</pre></div></div>\n"

----------------------------------------------------------------------------
(* The inline parser on every line: its states and its termination *)

MaxParseLen == 4

\* The pieces of the lines: spaces, list and heading markers, and the
\* characters of the four kinds of link
ParseAlphabet == {" ", "*", "h", "1", ".", "[", "~", "^", "|", "]"}

ParseDocs == Texts(ParseAlphabet, MaxParseLen)

ParseInit ==
    /\ IssueIdle
    /\ desc \in ParseDocs
    /\ mpc = "call"
    /\ fallback = Null
    /\ parser = Null
    /\ raised = ""
    /\ html = <<>>

SpecParse == ParseInit /\ [][MarkupNext]_vars

\* The loop of parse_jira_markup runs to its end and format_markup_fallback
\* returns: nothing else runs meanwhile
SpecParseLive == SpecParse /\ WF_vars(MarkupNext)

ParserStates ==
    {"LEADING_SPACES", "TEXT", "LINK_TITLE", "LINK_USER", "LINK_ATTACHMENT",
     "LINK_URL"}

\* An iteration of the loop of parse_jira_markup
Iteration == mpc = "parse" /\ mpc' = "parse"

\* What is left to do: two for every character not yet passed, and one
\* more while the rewind is still to come
Remaining(p) ==
    2 * (Len(p.desc) - p.i) + (IF p.state = "LEADING_SPACES" THEN 1 ELSE 0)

\* C30: parse_jira_markup terminates on every line: an iteration that
\* does not advance is the rewind that leaves LEADING_SPACES for TEXT,
\* LEADING_SPACES is never entered again, so there is at most one rewind
\* per line; the state is always one of the six states and the error
\* 'unknown state' is never raised.
C30_ParserTerminates ==
    /\ [](mpc = "parse" => parser.state \in ParserStates)
    /\ [](raised # "unknown state")
    /\ [][Iteration =>
              /\ parser'.i >= parser.i
              /\ parser'.i = parser.i =>
                     /\ parser.state = "LEADING_SPACES"
                     /\ parser'.state = "TEXT"
              /\ parser.state # "LEADING_SPACES" =>
                     parser'.state # "LEADING_SPACES"
              /\ Remaining(parser') < Remaining(parser)]_vars
    /\ [](mpc = "parse" => <>(LineParsed \/ mpc = "raised"))
    /\ <>(mpc \in {"returned", "raised"})

\* A line parsed to its end: a space, the rewind, and a link
C30_Witness ==
    /\ mpc = "returned"
    /\ desc = <<" ", "[", "~", "]">>
    /\ html = <<" ", "<b>@", "</b>", "<br>\n">>

====
